---- MODULE Spec2Model ----
(***************************************************************************)
(* State-machine model of the BuyBot automation engine                     *)
(* (src/buybot/bot_worker.py), its trade ledger (src/buybot/trade_logger.py)*)
(* and the price reads it consumes (src/buybot/ocr.py).                    *)
(*                                                                         *)
(* Money values are integers counting thirds of a cent: the average of up  *)
(* to three OCR samples (ocr.py:119) and the two-decimal formatting of the *)
(* ledger row (bot_worker.py:220) are then both expressible, and the       *)
(* formatting is not the identity.  An absent value (Python None) is None. *)
(*                                                                         *)
(* One engine step is one blocking operation of the worker thread: a loop  *)
(* head (stop check and focus guard), a click, a screen read, one poll of  *)
(* a sleep, a pointer move or a trade recording.  The controller's stop()  *)
(* is a separate action and may occur between any two engine steps.        *)
(* The variable out holds the events the latest step produced, in order.   *)
(* The engine only ever appends to trades.csv: ledger_rows is the number   *)
(* of rows it has appended (counted up to MaxLedger), and each appended    *)
(* row is an event of out.                                                 *)
(* Debug messages (debug_message, debug_payload) carry no state and are    *)
(* not modelled.                                                           *)
(*                                                                         *)
(* The configuration store's regions (src/buybot/settings_manager.py), the *)
(* capture overlay that fills them (src/buybot/roi_overlay.py) and the     *)
(* window's start button (src/buybot/gui.py) are the subject of StoreSpec; *)
(* during a run of the engine they do not change.                          *)
(***************************************************************************)
EXTENDS Integers, Sequences, FiniteSets, TLC

\* ------------------------------------------------------------------ bounds
MaxMoney == 2       \* largest value an OCR read, max_price or a balance takes
MaxLedger == 2      \* saturation of the count of ledger rows
MaxRun == 2         \* saturation of the focus-guard history counters
MaxText == 5        \* longest text of TextChars handed to parse_numeric
MaxGrouped == 1200  \* every integer up to it is formatted and parsed back
MaxAttempts == 3    \* largest attempts argument of read_price_average
NumWriters == 2     \* threads that call TradeLogger.append
MaxCalls == 2       \* calls of append each thread makes
MaxCount == 3       \* where the counters of a run's history stop

None == 0 - 1

Max(a, b) == IF a >= b THEN a ELSE b
Min(a, b) == IF a <= b THEN a ELSE b

\* -------------------------------------------------------- window titles
\* A title is a sequence of one-character strings.

LowerChar(c) == IF c = "G" THEN "g" ELSE c

\* str.lower()
Lower(s) == [i \in 1..Len(s) |-> LowerChar(s[i])]

RECURSIVE LStrip(_)
LStrip(s) == IF s # <<>> /\ Head(s) = " " THEN LStrip(Tail(s)) ELSE s

RECURSIVE RStrip(_)
RStrip(s) ==
    IF s # <<>> /\ s[Len(s)] = " " THEN RStrip(SubSeq(s, 1, Len(s) - 1)) ELSE s

\* str.strip()
Strip(s) == RStrip(LStrip(s))

\* sub in s
Contains(sub, s) ==
    \E i \in 0..(Len(s) - Len(sub)) : SubSeq(s, i + 1, i + Len(sub)) = sub

\* BotParams.target_window_title as handed to the worker
TargetTitles == {<<>>, <<" ", "G">>}

\* what pyautogui.getActiveWindow() can report: no window (or an exception,
\* or an empty title) is the empty title
ActiveTitles == {<<>>, <<"x">>, <<"x", "g", " ">>}

\* ------------------------------------------------------------- formatting
\* f"{value:.2f}" of a value of v thirds of a cent, in cents (round to nearest;
\* a third is never a tie)
Format2(v) == (2 * v + 3) \div 6

\* f"{n/d:.2f}" for the quotient n/d thirds of a cent, in cents (ties to even)
Format2Rat(n, d) ==
    LET q == (2 * n + 3 * d) \div (6 * d)
        tie == (2 * n + 3 * d) % (6 * d) = 0
    IN  IF tie /\ q % 2 = 1 THEN q - 1 ELSE q

\* ------------------------------------------------------------------ events
\* an event: its kind k, its name n, its integer values v, its title t
Ev(k, n, v) == [k |-> k, n |-> n, v |-> v, t |-> <<>>]
\* the foreground title a guard check observed
Foreground(title) == [k |-> "foreground", n |-> "title", v |-> <<>>, t |-> title]
Status(n) == Ev("status", n, <<>>)

VARIABLES
    buy_method, max_price, balance_floor, buy_amount, skip_buy, skip_max,
    current_balance, target_window, focus_warning_active,
    state, latest_price, latest_total_price, should_click_item, max_clicked,
    pending_confirm_delay, stop_event,
    pc, ret, deadline_ahead, price, attempts_remaining,
    ledger_rows, out,
    fail_run, wait_emits, ready_emits, ended_run,
    op_after_stop,
    history_kept, max_after_item, max_since_cycle, bought, cancelled,
    stay_trades, stay_balance,
    rois, worker, current_buy_method,
    text, formatted, parsed,
    ocr_texts, attempt, results, raw_samples, sample_pc, sample_ret,
    ledger_lock, ledger_file, wpc, wbuffer, woutcome

paramVars == <<buy_method, max_price, balance_floor, buy_amount, skip_buy,
               skip_max, target_window>>
guardVars == <<focus_warning_active, fail_run, wait_emits, ready_emits, ended_run>>
fsmVars == <<state, latest_price, latest_total_price, should_click_item,
             max_clicked>>
bulkVars == <<pending_confirm_delay, price, attempts_remaining>>
posVars == <<pc, ret, deadline_ahead>>
\* what a run has done so far, kept for the properties of whole cycles:
\* whether the max region was clicked since the last delivered item click
\* ("none", "once", and "again" in the state a further click leads to), the
\* delivered max clicks since CLICK_ITEM last completed, whether the buy click of the current
\* iteration was delivered, whether a bulk iteration ended in a cancel since
\* the last delivered confirm click, and the trades recorded in the current
\* stay in IN_RANGE_EXECUTE with the balance at its beginning.  The history
\* is kept in the behaviours of HistSpec (history_kept) and left as it begins
\* in the others, which do not refer to it.
histVars == <<history_kept, max_after_item, max_since_cycle, bought, cancelled,
             stay_trades, stay_balance>>
engineVars == <<paramVars, guardVars, fsmVars, bulkVars, posVars,
                current_balance, stop_event, ledger_rows, out, op_after_stop,
                histVars>>
\* the configuration store's regions, the window's worker (TRUE when it is
\* not None) and the mode the window has selected
storeVars == <<rois, worker, current_buy_method>>
\* the text handed to parse_numeric, the integer it was formatted from (None
\* when it is any other text) and what the call returned
parseVars == <<text, formatted, parsed>>
\* a call of read_price_average: what the OCR engine yields at each attempt,
\* the attempts made, the function's two lists, its position and its result
sampleVars == <<ocr_texts, attempt, results, raw_samples, sample_pc,
                sample_ret>>
\* threads calling TradeLogger.append on one TradeLogger: the holder of its
\* lock (0: free), the content of trades.csv after the header, each thread's
\* position in append, the buffer of its file handle and the outcomes of the
\* calls it has made
ledgerVars == <<ledger_lock, ledger_file, wpc, wbuffer, woutcome>>
auxVars == <<parseVars, sampleVars, ledgerVars>>
vars == <<engineVars, storeVars, auxVars>>

\* ------------------------------------------------------------ the inputs
Raise == 0 - 2

\* what one read_price_average call can give the engine: an exception of the
\* OCR engine, no parseable sample (None), or the mean of the parsed samples;
\* parse_numeric matches digits and separators only, so a mean is never
\* negative
ReadResults == {Raise, None} \cup (0..MaxMoney)

\* how pyautogui answers a moveTo followed by a click: both succeed, or one
\* of them raises FailSafeException or another exception
ClickOutcomes ==
    {"ok", "failsafe_move", "failsafe_click", "error_move", "error_click"}

\* _click_delay_ms for the default click_delay_ms, and the extra delay before
\* a confirm click that follows a cancel
ClickDelayMs == 0
ConfirmPreDelayMs == 250

\* --------------------------------------------------------- the focus guard
\* EnsureTargetWindow raising the waiting status at every failing check
EnsureTargetWindowSpam(title) ==
    IF target_window = <<>>
    THEN [checked |-> FALSE, ok |-> TRUE, fwa |-> focus_warning_active,
          ev |-> <<>>]
    ELSE LET active_title == Strip(title)
             seen == <<Foreground(title)>>
         IN  IF active_title = <<>>
                \/ ~Contains(Lower(target_window), Lower(active_title))
             THEN [checked |-> TRUE, ok |-> FALSE, fwa |-> TRUE,
                   ev |-> seen \o <<Status("WAITING_FOR_TARGET_FOCUS")>>]
             ELSE [checked |-> TRUE, ok |-> TRUE, fwa |-> FALSE,
                   ev |-> seen \o
                          (IF focus_warning_active
                           THEN <<Status("TARGET_FOCUS_READY")>>
                           ELSE <<>>)]

\* EnsureTargetWindow accepting any foreground window that has a title
EnsureTargetWindowAnyTitle(title) ==
    IF target_window = <<>>
    THEN [checked |-> FALSE, ok |-> TRUE, fwa |-> focus_warning_active,
          ev |-> <<>>]
    ELSE LET active_title == Strip(title)
             seen == <<Foreground(title)>>
         IN  IF active_title = <<>>
             THEN [checked |-> TRUE, ok |-> FALSE, fwa |-> TRUE,
                   ev |-> seen \o
                          (IF ~focus_warning_active
                           THEN <<Status("WAITING_FOR_TARGET_FOCUS")>>
                           ELSE <<>>)]
             ELSE [checked |-> TRUE, ok |-> TRUE, fwa |-> FALSE,
                   ev |-> seen \o
                          (IF focus_warning_active
                           THEN <<Status("TARGET_FOCUS_READY")>>
                           ELSE <<>>)]

\* BotWorker._ensure_target_window, for the foreground title it observes:
\* whether a check took place, its result, the new warning flag, the events
EnsureTargetWindow(title) ==
    IF target_window = <<>>
    THEN [checked |-> FALSE, ok |-> TRUE, fwa |-> focus_warning_active,
          ev |-> <<>>]
    ELSE LET active_title == Strip(title)
             target_lower == Lower(target_window)
             seen == <<Foreground(title)>>
         IN  IF active_title = <<>>
                \/ ~Contains(target_lower, Lower(active_title))
             THEN [checked |-> TRUE, ok |-> FALSE, fwa |-> TRUE,
                   ev |-> seen \o
                          (IF ~focus_warning_active
                           THEN <<Status("WAITING_FOR_TARGET_FOCUS")>>
                           ELSE <<>>)]
             ELSE [checked |-> TRUE, ok |-> TRUE, fwa |-> FALSE,
                   ev |-> seen \o
                          (IF focus_warning_active
                           THEN <<Status("TARGET_FOCUS_READY")>>
                           ELSE <<>>)]

\* number of status events named n among evs
CountStatus(evs, n) ==
    Cardinality({i \in DOMAIN evs : evs[i].k = "status" /\ evs[i].n = n})

\* The guard's effect on the warning flag, and the history of the checks:
\* fail_run counts the failing checks of the current run of failures,
\* wait_emits the waiting statuses emitted during that run, ready_emits the
\* ready statuses emitted since that run ended, ended_run the length of the
\* run that ended before the current passing checks (0 when none did).  The
\* counters saturate at MaxRun.
GuardStep(g) ==
    /\ focus_warning_active' = g.fwa
    /\ IF ~g.checked
       THEN UNCHANGED <<fail_run, wait_emits, ready_emits, ended_run>>
       ELSE LET w == CountStatus(g.ev, "WAITING_FOR_TARGET_FOCUS")
                r == CountStatus(g.ev, "TARGET_FOCUS_READY")
            IN  IF ~g.ok
                THEN /\ fail_run' = Min(MaxRun, fail_run + 1)
                     /\ wait_emits' =
                            Min(MaxRun, (IF fail_run = 0 THEN 0 ELSE wait_emits) + w)
                     /\ ready_emits' = r
                     /\ ended_run' = 0
                ELSE /\ fail_run' = 0
                     /\ wait_emits' = w
                     /\ ready_emits' =
                            Min(MaxRun, (IF fail_run > 0 THEN 0 ELSE ready_emits) + r)
                     /\ ended_run' = (IF fail_run > 0 THEN fail_run ELSE ended_run)

\* ------------------------------------------------------------ dispatching
\* ClickRoi handling every exception as the fail-safe: the flag is set
ClickRoiErrorStops(name, extra_delay_ms, title, outcome) ==
    LET g == EnsureTargetWindow(title)
        pre_delay == Max(0, ClickDelayMs + extra_delay_ms)
        move == <<Ev("move", name, <<>>)>>
        delay == IF pre_delay > 0 THEN <<Ev("delay", name, <<pre_delay>>)>>
                 ELSE <<>>
        failsafe == <<Ev("raise", "FailSafeException", <<>>),
                      Status("FAILSAFE_TRIGGERED")>>
        failed == <<Ev("raise", "Exception", <<>>),
                    Status("CLICK_FAILED:" \o name)>>
    IN  IF ~g.ok
        THEN [ok |-> FALSE, g |-> g, stops |-> FALSE,
              ev |-> g.ev \o <<Ev("click_roi", name, <<0>>)>>]
        ELSE CASE outcome = "ok" ->
                    [ok |-> TRUE, g |-> g, stops |-> FALSE,
                     ev |-> g.ev \o move \o delay
                            \o <<Ev("click", name, <<>>),
                                 Ev("click_roi", name, <<1>>)>>]
               [] outcome = "failsafe_move" ->
                    [ok |-> FALSE, g |-> g, stops |-> TRUE,
                     ev |-> g.ev \o failsafe \o <<Ev("click_roi", name, <<0>>)>>]
               [] outcome = "failsafe_click" ->
                    [ok |-> FALSE, g |-> g, stops |-> TRUE,
                     ev |-> g.ev \o move \o delay \o failsafe
                            \o <<Ev("click_roi", name, <<0>>)>>]
               [] outcome = "error_move" ->
                    [ok |-> FALSE, g |-> g, stops |-> TRUE,
                     ev |-> g.ev \o failed \o <<Ev("click_roi", name, <<0>>)>>]
               [] outcome = "error_click" ->
                    [ok |-> FALSE, g |-> g, stops |-> TRUE,
                     ev |-> g.ev \o move \o delay \o failed
                            \o <<Ev("click_roi", name, <<0>>)>>]

\* BotWorker._click_roi(name, extra_delay_ms) for the foreground title and
\* pyautogui's answer: its result, the guard's record, the events in order,
\* and whether it set the stop flag
ClickRoi(name, extra_delay_ms, title, outcome) ==
    LET g == EnsureTargetWindow(title)
        pre_delay == Max(0, ClickDelayMs + extra_delay_ms)
        move == <<Ev("move", name, <<>>)>>
        delay == IF pre_delay > 0 THEN <<Ev("delay", name, <<pre_delay>>)>>
                 ELSE <<>>
        failsafe == <<Ev("raise", "FailSafeException", <<>>),
                      Status("FAILSAFE_TRIGGERED")>>
        failed == <<Ev("raise", "Exception", <<>>),
                    Status("CLICK_FAILED:" \o name)>>
    IN  IF ~g.ok
        THEN [ok |-> FALSE, g |-> g, stops |-> FALSE,
              ev |-> g.ev \o <<Ev("click_roi", name, <<0>>)>>]
        ELSE CASE outcome = "ok" ->
                    [ok |-> TRUE, g |-> g, stops |-> FALSE,
                     ev |-> g.ev \o move \o delay
                            \o <<Ev("click", name, <<>>),
                                 Ev("click_roi", name, <<1>>)>>]
               [] outcome = "failsafe_move" ->
                    [ok |-> FALSE, g |-> g, stops |-> TRUE,
                     ev |-> g.ev \o failsafe \o <<Ev("click_roi", name, <<0>>)>>]
               [] outcome = "failsafe_click" ->
                    [ok |-> FALSE, g |-> g, stops |-> TRUE,
                     ev |-> g.ev \o move \o delay \o failsafe
                            \o <<Ev("click_roi", name, <<0>>)>>]
               [] outcome = "error_move" ->
                    [ok |-> FALSE, g |-> g, stops |-> FALSE,
                     ev |-> g.ev \o failed \o <<Ev("click_roi", name, <<0>>)>>]
               [] outcome = "error_click" ->
                    [ok |-> FALSE, g |-> g, stops |-> FALSE,
                     ev |-> g.ev \o move \o delay \o failed
                            \o <<Ev("click_roi", name, <<0>>)>>]

\* ReadValue reporting an exception of the OCR engine as a read without a
\* number
ReadValueOneFailure(roi_name, label, attempts, title, result) ==
    LET g == EnsureTargetWindow(title)
        capture == <<Ev("capture", roi_name, <<attempts>>),
                     Ev("ocr", roi_name, <<result>>)>>
    IN  IF ~g.ok
        THEN [value |-> None, g |-> g,
              ev |-> g.ev \o <<Ev("read_value", roi_name, <<None>>)>>]
        ELSE IF result = Raise
        THEN [value |-> None, g |-> g,
              ev |-> g.ev \o capture
                     \o <<Status(label \o "_READ_FAIL"),
                          Ev("read_value", roi_name, <<None>>)>>]
        ELSE IF result = None
        THEN [value |-> None, g |-> g,
              ev |-> g.ev \o capture
                     \o <<Status(label \o "_READ_FAIL"),
                          Ev("read_value", roi_name, <<None>>)>>]
        ELSE [value |-> result, g |-> g,
              ev |-> g.ev \o capture
                     \o <<Ev("status", label, <<Format2(result)>>),
                          Ev("read_value", roi_name, <<result>>)>>]

\* BotWorker._read_value(roi_name, label, attempts) for the foreground title
\* and the sampler's answer: the value returned (None on any failure), the
\* guard's record and the events in order
ReadValue(roi_name, label, attempts, title, result) ==
    LET g == EnsureTargetWindow(title)
        capture == <<Ev("capture", roi_name, <<attempts>>),
                     Ev("ocr", roi_name, <<result>>)>>
    IN  IF ~g.ok
        THEN [value |-> None, g |-> g,
              ev |-> g.ev \o <<Ev("read_value", roi_name, <<None>>)>>]
        ELSE IF result = Raise
        THEN [value |-> None, g |-> g,
              ev |-> g.ev \o capture
                     \o <<Status("OCR_ERROR"), Ev("read_value", roi_name, <<None>>)>>]
        ELSE IF result = None
        THEN [value |-> None, g |-> g,
              ev |-> g.ev \o capture
                     \o <<Status(label \o "_READ_FAIL"),
                          Ev("read_value", roi_name, <<None>>)>>]
        ELSE [value |-> result, g |-> g,
              ev |-> g.ev \o capture
                     \o <<Ev("status", label, <<Format2(result)>>),
                          Ev("read_value", roi_name, <<result>>)>>]

ReadPrice(attempts, title, result) ==
    ReadValue("price", "PRICE", attempts, title, result)

ReadTotalPrice(attempts, title, result) ==
    ReadValue("total", "TOTAL", attempts, title, result)

\* --------------------------------------------------------- trade recording
\* Deduct without the clamp / with the sign of the deduction slipped
DeductNoClamp(balance, spent) == balance - spent
DeductSignSlip(balance, spent) ==
    IF balance + spent < 0 THEN 0 ELSE balance + spent

\* Deduct leaving the balance as it is
DeductNothing(balance, spent) == balance

\* the balance BotWorker._log_trade leaves: the deduction, clamped at zero
Deduct(balance, spent) ==
    IF balance - spent < 0 THEN 0 ELSE balance - spent

\* the ledger row of a trade of unit price n/d: price, spent, balance_after,
\* each formatted to two decimals (the timestamp is not modelled)
LedgerRow(n, d, spent, balance) ==
    <<Format2Rat(n, d), Format2(spent), Format2(balance)>>

\* the deduction of _log_trade as an event: balance before, spent, after
Deduction(before, spent, balance) ==
    <<Ev("deduct", "balance", <<before, spent, balance>>)>>

\* the events of _log_trade after the deduction, in order: the row appended
\* by TradeLogger.append, the log_entry payload, the balance_changed value
TradeEvents(n, d, spent, balance) ==
    <<Ev("ledger", "append", LedgerRow(n, d, spent, balance)),
      Ev("log_entry", "trade", <<n, d, spent, balance>>),
      Ev("balance_changed", "balance", <<balance>>)>>

\* FatalEvents without the final status of run()'s finally
FatalEventsNoIdle(detail) == <<Ev("critical_error", detail, <<>>)>>

\* the end of run() after an exception escaped the loop; detail is the call
\* that raised
FatalEvents(detail) == <<Ev("critical_error", detail, <<>>), Status("IDLE")>>

\* the end of a loop that left its while, then run()'s finally
ExitEvents == <<Status("STOPPED"), Status("IDLE")>>

\* ---------------------------------------------------- configuration store
\* a region is <<x, y, w, h>>; a region that is not set (None) is <<>>
NoRoi == <<>>

Methods == {"simple", "bulk"}

ROI_GROUPS ==
    [simple |-> {"item", "price", "total", "max", "buy", "close", "balance"},
     bulk |-> {"confirm", "cancel", "buy", "balance", "price"}]

\* the sides, in logical pixels, of the rectangle a drag on the capture
\* overlay leaves, and the device pixel ratio of the screen it is on
LogicalSizes == {4, 5}
Ratios == {1}

\* what settings.json can hold for one region: null or an empty list, a list
\* of the wrong length, a list with a zero or negative side, a proper list
RawRois ==
    {<<>>, <<0, 0, 5>>, <<0, 0, 0, 5>>, <<0, 0, 5, 0 - 1>>, <<0, 0, 5, 5>>}

\* SettingsManager._normalize_roi (the items of a list are integers here)
NormalizeRoi(value) ==
    IF value = <<>> THEN NoRoi
    ELSE IF Len(value) # 4 THEN NoRoi
    ELSE IF value[3] <= 0 \/ value[4] <= 0 THEN NoRoi
    ELSE value

\* RoiCaptureOverlay._rect_to_physical for a rectangle at the origin of its
\* screen
RectToPhysical(lw, lh, ratio) ==
    <<0, 0, Max(1, lw * ratio), Max(1, lh * ratio)>>

\* SettingsManager.get_roi
GetRoi(name, method) == rois[method][name]

\* bool(value) of a stored region: None is false, a 4-tuple is true
Truthy(value) == value # NoRoi

AllRoisReadyAny(method) ==
    \E name \in ROI_GROUPS[method] : Truthy(GetRoi(name, method))

\* SettingsManager.all_rois_ready
AllRoisReady(method) ==
    \A name \in ROI_GROUPS[method] : Truthy(GetRoi(name, method))

\* ------------------------------------------------------------ the parser
\* A text is a sequence of one-character strings.  A parsed number is the
\* pair <<n, d>> standing for n / d, d a power of ten; None is <<>>; a
\* ValueError that float() raises is <<0, 0>>.
NoNumber == <<>>
ValueError == <<0, 0>>

Digits == {"0", "1", "2", "3", "4", "5", "6", "7", "8", "9"}
\* the characters parse_numeric deletes first (lines 43-48); "_" stands for
\* the no-break spaces
Whitespace == {" ", "_", "\n", "\r", "\t"}
\* the two apostrophes of the token pattern; "#" stands for U+2019
Apostrophes == {"'", "#"}

DigitValue(c) ==
    CASE c = "0" -> 0 [] c = "1" -> 1 [] c = "2" -> 2 [] c = "3" -> 3
      [] c = "4" -> 4 [] c = "5" -> 5 [] c = "6" -> 6 [] c = "7" -> 7
      [] c = "8" -> 8 [] c = "9" -> 9

\* s without the characters of the set cs (a chain of str.replace(c, ""))
RECURSIVE Without(_, _)
Without(s, cs) ==
    IF s = <<>> THEN <<>>
    ELSE IF Head(s) \in cs THEN Without(Tail(s), cs)
    ELSE <<Head(s)>> \o Without(Tail(s), cs)

\* str.replace(a, b) for single characters
ReplaceChar(s, a, b) == [i \in 1..Len(s) |-> IF s[i] = a THEN b ELSE s[i]]

\* str.isdigit()
IsDigitString(s) == s # <<>> /\ \A i \in 1..Len(s) : s[i] \in Digits

\* the length of the longest prefix of s made of characters of cs
RECURSIVE PrefixIn(_, _)
PrefixIn(s, cs) ==
    IF s = <<>> \/ Head(s) \notin cs THEN 0 ELSE 1 + PrefixIn(Tail(s), cs)

RECURSIVE CandidateNoComma(_)
CandidateNoComma(s) ==
    LET TokenChars == Digits \cup {"."} \cup Apostrophes
    IN  IF s = <<>> THEN <<>>
        ELSE IF Head(s) \in TokenChars
             THEN SubSeq(s, 1, PrefixIn(s, TokenChars))
        ELSE CandidateNoComma(Tail(s))

\* re.search of the token pattern (line 50) in s: the first longest run of
\* digits, points, commas and apostrophes, <<>> for no match
RECURSIVE Candidate(_)
Candidate(s) ==
    LET TokenChars == Digits \cup {".", ","} \cup Apostrophes
    IN  IF s = <<>> THEN <<>>
        ELSE IF Head(s) \in TokenChars
             THEN SubSeq(s, 1, PrefixIn(s, TokenChars))
        ELSE Candidate(Tail(s))

\* str.split(sep)
RECURSIVE Split(_, _)
Split(s, sep) ==
    LET n == PrefixIn(s, (Digits \cup {".", ","}) \ {sep})
    IN  IF n = Len(s) THEN <<s>>
        ELSE <<SubSeq(s, 1, n)>> \o Split(SubSeq(s, n + 2, Len(s)), sep)

\* str.rfind(c): the last position of c counted from 1, 0 when absent
RFind(s, c) ==
    IF \E i \in 1..Len(s) : s[i] = c
    THEN CHOOSE i \in 1..Len(s) :
            s[i] = c /\ \A j \in (i + 1)..Len(s) : s[j] # c
    ELSE 0

HasDecimalSepUpToThree(sample, sep) ==
    LET n == Len(sample)
    IN  \E k \in 1..3 :
           /\ n >= k + 1
           /\ sample[n - k] = sep
           /\ \A i \in (n - k + 1)..n : sample[i] \in Digits

\* _has_decimal_sep: the sample ends with sep and one or two digits
HasDecimalSep(sample, sep) ==
    LET n == Len(sample)
    IN  \/ n >= 2 /\ sample[n - 1] = sep /\ sample[n] \in Digits
        \/ n >= 3 /\ sample[n - 2] = sep /\ sample[n - 1] \in Digits
                  /\ sample[n] \in Digits

\* _looks_like_thousands
LooksLikeThousands(sample, sep) ==
    LET parts == Split(sample, sep)
        k == Len(parts)
    IN  IF k < 2 THEN FALSE
        ELSE IF ~IsDigitString(parts[k]) \/ Len(parts[k]) # 3 THEN FALSE
        ELSE IF \E m \in 2..(k - 1) :
                   ~IsDigitString(parts[m]) \/ Len(parts[m]) # 3 THEN FALSE
        ELSE IsDigitString(parts[1])

\* the value of a string of digits
RECURSIVE IntOf(_)
IntOf(s) ==
    IF s = <<>> THEN 0
    ELSE 10 * IntOf(SubSeq(s, 1, Len(s) - 1)) + DigitValue(s[Len(s)])

RECURSIVE Pow10(_)
Pow10(k) == IF k = 0 THEN 1 ELSE 10 * Pow10(k - 1)

\* float(token) for a token of digits and points: the number, or ValueError
\* when the token has no digit or more than one point
Float(token) ==
    LET points == {i \in 1..Len(token) : token[i] = "."}
    IN  IF Cardinality(points) > 1 \/ ~\E i \in 1..Len(token) : token[i] \in Digits
        THEN ValueError
        ELSE IF points = {} THEN <<IntOf(token), 1>>
        ELSE LET p == CHOOSE i \in points : TRUE
             IN  <<IntOf(Without(token, {"."})), Pow10(Len(token) - p)>>

SeparatorsFirstWins(token) ==
    LET hasComma == \E i \in 1..Len(token) : token[i] = ","
        hasPoint == \E i \in 1..Len(token) : token[i] = "."
        One(sep) ==
            IF LooksLikeThousands(token, sep) THEN <<"", sep>>
            ELSE IF HasDecimalSep(token, sep) THEN <<sep, "">>
            ELSE <<"", sep>>
    IN  IF hasComma /\ hasPoint
        THEN IF RFind(token, ",") < RFind(token, ".")
             THEN <<",", ".">>
             ELSE <<".", ",">>
        ELSE IF hasComma THEN One(",")
        ELSE IF hasPoint THEN One(".")
        ELSE <<"", "">>

\* the pair <<decimal_sep, thousands_sep>> of lines 70-92, "" for none
Separators(token) ==
    LET hasComma == \E i \in 1..Len(token) : token[i] = ","
        hasPoint == \E i \in 1..Len(token) : token[i] = "."
        One(sep) ==
            IF LooksLikeThousands(token, sep) THEN <<"", sep>>
            ELSE IF HasDecimalSep(token, sep) THEN <<sep, "">>
            ELSE <<"", sep>>
    IN  IF hasComma /\ hasPoint
        THEN IF RFind(token, ",") > RFind(token, ".")
             THEN <<",", ".">>
             ELSE <<".", ",">>
        ELSE IF hasComma THEN One(",")
        ELSE IF hasPoint THEN One(".")
        ELSE <<"", "">>

\* lines 94-100: the token handed to float()
Normalised(token) ==
    LET decimal_sep == Separators(token)[1]
        thousands_sep == Separators(token)[2]
        t1 == IF thousands_sep # "" THEN Without(token, {thousands_sep})
              ELSE token
    IN  IF decimal_sep # ""
        THEN IF decimal_sep # "." THEN ReplaceChar(t1, decimal_sep, ".") ELSE t1
        ELSE Without(t1, {",", "."})

ParseNumericRaises(t) ==
    LET candidate == Candidate(Without(t, Whitespace))
    IN  IF candidate = <<>> THEN NoNumber
        ELSE Float(Normalised(Without(candidate, Apostrophes)))

\* parse_numeric
ParseNumeric(t) ==
    LET candidate == Candidate(Without(t, Whitespace))
    IN  IF candidate = <<>> THEN NoNumber
        ELSE LET value == Float(Normalised(Without(candidate, Apostrophes)))
             IN  IF value = ValueError THEN NoNumber ELSE value

\* ------------------------------------------------------- nothing to parse
\* a call that has not returned
Pending == <<0 - 1, 0 - 1>>

\* no call of parse_numeric is under way
ParseIdle ==
    /\ text = <<>>
    /\ formatted = None
    /\ parsed = Pending

\* no call of read_price_average is under way
SampleIdle ==
    /\ ocr_texts = <<>>
    /\ attempt = 0
    /\ results = <<>>
    /\ raw_samples = <<>>
    /\ sample_pc = "idle"
    /\ sample_ret = <<NoNumber, <<>>>>

Writers == 1..NumWriters

\* no thread is in TradeLogger.append
LedgerIdle ==
    /\ ledger_lock = 0
    /\ ledger_file = <<>>
    /\ wpc = [w \in Writers |-> "idle"]
    /\ wbuffer = [w \in Writers |-> <<>>]
    /\ woutcome = [w \in Writers |-> <<>>]

AuxIdle ==
    /\ ParseIdle
    /\ SampleIdle
    /\ LedgerIdle

\* ------------------------------------------------------------------- Init
\* BotWorker.__init__ for the parameters a run is started with.  BotParams
\* takes any title and any amount (MainWindow._on_start supplies a non-empty
\* title and an amount of 1 or more); buy_amount and skip_max are read by one
\* mode only and are fixed in the other.
\* a run that has done nothing yet
HistInit(kept) ==
    /\ history_kept = kept
    /\ max_after_item = "none"
    /\ max_since_cycle = 0
    /\ bought = FALSE
    /\ cancelled = FALSE
    /\ stay_trades = 0
    /\ stay_balance = 0

\* the history of a new run begins
HistReset ==
    /\ history_kept' = history_kept
    /\ max_after_item' = "none"
    /\ max_since_cycle' = 0
    /\ bought' = FALSE
    /\ cancelled' = FALSE
    /\ stay_trades' = 0
    /\ stay_balance' = 0

InitWith(kept) ==
    /\ buy_method \in {"simple", "bulk"}
    /\ max_price \in 1..(MaxMoney - 1)
    /\ balance_floor \in {0, 1}
    /\ current_balance \in 0..MaxMoney
    /\ buy_amount \in (IF buy_method = "bulk" THEN {0, 1, 2} ELSE {1})
    /\ skip_buy \in BOOLEAN
    /\ skip_max \in (IF buy_method = "bulk" THEN {FALSE} ELSE BOOLEAN)
    /\ \E t \in TargetTitles : target_window = Strip(t)
    /\ focus_warning_active = FALSE
    /\ state = "IDLE"
    /\ latest_price = None
    /\ latest_total_price = None
    /\ should_click_item = TRUE
    /\ max_clicked = FALSE
    /\ pending_confirm_delay = FALSE
    /\ stop_event = FALSE
    /\ pc = "run"
    /\ ret = ""
    /\ deadline_ahead = FALSE
    /\ price = None
    /\ attempts_remaining = 0
    /\ ledger_rows = 0
    /\ out = <<>>
    /\ fail_run = 0
    /\ wait_emits = 0
    /\ ready_emits = 0
    /\ ended_run = 0
    /\ op_after_stop = FALSE
    /\ HistInit(kept)
    /\ AuxIdle
    /\ rois = [m \in Methods |-> [name \in ROI_GROUPS[m] |-> <<0, 0, 5, 5>>]]
    /\ worker = TRUE
    /\ current_buy_method = buy_method

Init == InitWith(FALSE)

\* ------------------------------------------------------------- positions
\* the events of a pointer move, a click, a screen capture or a trade
\* recording (a pointer call that raised included)
OperationKinds == {"move", "click", "capture", "deduct", "raise"}

\* History of the run: op_after_stop records that a step which started with
\* the stop flag already set made a pointer move, a click, a capture or a
\* trade recording.
History ==
    LET Delivered(name) ==
            \E i \in DOMAIN out' : out'[i].k = "click" /\ out'[i].n = name
        Deducted == \E i \in DOMAIN out' : out'[i].k = "deduct"
    IN  /\ op_after_stop' =
            (op_after_stop
             \/ (stop_event
                 /\ \E i \in DOMAIN out' : out'[i].k \in OperationKinds))
        /\ history_kept' = history_kept
        /\ max_after_item' =
            (IF ~history_kept THEN max_after_item
             ELSE IF Delivered("item") THEN "none"
             ELSE IF Delivered("max")
                  THEN (IF max_after_item = "none" THEN "once" ELSE "again")
             ELSE IF max_after_item = "again" THEN "once"
             ELSE max_after_item)
        /\ max_since_cycle' =
            (IF ~history_kept THEN max_since_cycle
             ELSE IF pc = "ci_click" /\ ret' = "ci_done" THEN 0
             ELSE IF Delivered("max") THEN Min(MaxCount, max_since_cycle + 1)
             ELSE max_since_cycle)
        /\ bought' =
            (IF ~history_kept THEN bought
             ELSE IF pc' \in {"top", "b_top", "done"} THEN FALSE
             ELSE bought \/ Delivered("buy"))
        /\ cancelled' =
            (IF ~history_kept THEN cancelled
             ELSE IF Delivered("confirm") THEN FALSE
             ELSE IF pc = "b_pending" /\ pc' # pc THEN TRUE
             ELSE cancelled)
        /\ stay_trades' =
            (IF ~history_kept THEN stay_trades
             ELSE IF state' # "IN_RANGE_EXECUTE" \/ state # "IN_RANGE_EXECUTE"
                  THEN 0
             ELSE IF Deducted THEN Min(MaxCount, stay_trades + 1)
             ELSE stay_trades)
        /\ stay_balance' =
            (IF ~history_kept THEN stay_balance
             ELSE IF state' # "IN_RANGE_EXECUTE" THEN 0
             ELSE IF state # "IN_RANGE_EXECUTE" THEN current_balance'
             ELSE stay_balance)

\* continue at label l
Goto(l) == pc' = l /\ ret' = "" /\ deadline_ahead' = FALSE

\* BotWorker._sleep_ms, then continue at label l: at the first evaluation of
\* the loop condition the deadline is ahead, or not (a delay of 0 ms)
SleepThen(l) == pc' = "sleep" /\ ret' = l /\ deadline_ahead' \in BOOLEAN

\* SleepPoll waiting for the deadline whatever the stop flag
SleepPollUntilDeadline ==
    /\ pc = "sleep"
    /\ IF ~deadline_ahead
       THEN Goto(ret)
       ELSE deadline_ahead' = FALSE /\ UNCHANGED <<pc, ret>>
    /\ out' = <<>>
    /\ UNCHANGED <<paramVars, guardVars, fsmVars, bulkVars, current_balance,
                   stop_event, ledger_rows>>
    /\ History
    /\ UNCHANGED <<storeVars, auxVars>>

\* one evaluation of _sleep_ms's loop condition: the sleep ends when the stop
\* flag is set or the deadline has passed, else it waits one more quantum
\* (the quanta that leave the deadline ahead change nothing and are left to
\* stuttering)
SleepPoll ==
    /\ pc = "sleep"
    /\ IF stop_event \/ ~deadline_ahead
       THEN Goto(ret)
       ELSE deadline_ahead' = FALSE /\ UNCHANGED <<pc, ret>>
    /\ out' = <<>>
    /\ UNCHANGED <<paramVars, guardVars, fsmVars, bulkVars, current_balance,
                   stop_event, ledger_rows>>
    /\ History
    /\ UNCHANGED <<storeVars, auxVars>>

\* Stop flipping the flag
StopToggles ==
    /\ pc # "done"
    /\ stop_event' = ~stop_event
    /\ out' = <<Ev("stop", "call", <<IF stop_event THEN 1 ELSE 0>>)>>
    /\ UNCHANGED <<paramVars, guardVars, fsmVars, bulkVars, posVars,
                   current_balance, ledger_rows>>
    /\ History
    /\ UNCHANGED <<storeVars, auxVars>>

\* BotWorker.stop, called by the controller; the event tells whether the
\* flag was set already
Stop ==
    /\ pc # "done"
    /\ stop_event' = TRUE
    /\ out' = <<Ev("stop", "call", <<IF stop_event THEN 1 ELSE 0>>)>>
    /\ UNCHANGED <<paramVars, guardVars, fsmVars, bulkVars, posVars,
                   current_balance, ledger_rows>>
    /\ History
    /\ UNCHANGED <<storeVars, auxVars>>

\* BotWorker.run: the choice of the loop, and the loop's first status
Run ==
    /\ pc = "run"
    /\ IF buy_method = "bulk"
       THEN out' = <<Status("BULK_READY")>> /\ Goto("b_top")
       ELSE out' = <<Status("IDLE")>> /\ Goto("top")
    /\ UNCHANGED <<paramVars, guardVars, fsmVars, bulkVars, current_balance,
                   stop_event, ledger_rows>>
    /\ History
    /\ UNCHANGED <<storeVars, auxVars>>

\* BotWorker._log_trade(n/d, spent), then the statuses `after` and label l;
\* when the ledger write raises, the deduction stays and the exception ends
\* the run in run()'s handler
LogTrade(n, d, spent, written, after, l) ==
    LET balance == Deduct(current_balance, spent)
    IN  /\ current_balance' = balance
        /\ IF written
           THEN /\ ledger_rows' = Min(MaxLedger, ledger_rows + 1)
                /\ out' = Deduction(current_balance, spent, balance)
                          \o TradeEvents(n, d, spent, balance) \o after
                /\ Goto(l)
           ELSE /\ ledger_rows' = ledger_rows
                /\ out' = Deduction(current_balance, spent, balance)
                          \o FatalEvents("append")
                /\ Goto("done")

\* LoopCondition with the stop flag ignored
LoopConditionTrue == TRUE

\* the while condition of _simple_loop and of _bulk_loop
LoopCondition == ~stop_event

\* ------------------------------------------------------------ simple mode
\* the balance-floor test taken as <
FloorReachedStrict == current_balance < balance_floor

\* IN_RANGE_EXECUTE's balance-floor test
FloorReached == current_balance <= balance_floor

\* the first operation of IN_RANGE_EXECUTE once the floor check has passed
AfterMax == IF latest_total_price = None THEN "ire_total" ELSE "ire_buy"
\* AfterFloor with the latch ignored
AfterFloorNoLatch == IF ~skip_max THEN "ire_max" ELSE AfterMax
AfterFloor == IF ~skip_max /\ ~max_clicked THEN "ire_max" ELSE AfterMax

\* _simple_loop: the while condition, the focus guard and the branch on the
\* state, up to the first blocking operation of the state
SimpleLoopHead ==
    /\ pc = "top"
    /\ IF ~LoopCondition
       THEN /\ out' = ExitEvents
            /\ Goto("done")
            /\ UNCHANGED <<guardVars, fsmVars>>
       ELSE \E title \in ActiveTitles :
              LET g == EnsureTargetWindow(title)
              IN  /\ GuardStep(g)
                  /\ IF ~g.ok
                     THEN /\ out' = g.ev
                          /\ SleepThen("top")
                          /\ UNCHANGED fsmVars
                     ELSE CASE state = "IDLE" ->
                                 /\ out' = g.ev
                                 /\ SleepThen("idle_done")
                                 /\ UNCHANGED fsmVars
                            [] state = "CLICK_ITEM" ->
                                 /\ out' = g.ev
                                 /\ Goto("ci_click")
                                 /\ UNCHANGED fsmVars
                            [] state = "CHECK_PRICE" ->
                                 /\ out' = g.ev
                                 /\ Goto("cp_read")
                                 /\ UNCHANGED fsmVars
                            [] state = "OUT_OF_RANGE_CLOSE" ->
                                 /\ out' = g.ev
                                 /\ Goto("oor_click")
                                 /\ UNCHANGED fsmVars
                            [] state = "WAIT" ->
                                 /\ out' = g.ev \o <<Status("WAIT")>>
                                 /\ SleepThen("wait_done")
                                 /\ UNCHANGED fsmVars
                            [] state = "IN_RANGE_EXECUTE" ->
                                 IF FloorReached
                                 THEN /\ out' = g.ev
                                             \o <<Status("BALANCE_FLOOR_REACHED")>>
                                      /\ state' = "WAIT"
                                      /\ should_click_item' = TRUE
                                      /\ Goto("top")
                                      /\ UNCHANGED <<latest_price,
                                                     latest_total_price,
                                                     max_clicked>>
                                 ELSE /\ out' = g.ev
                                      /\ Goto(AfterFloor)
                                      /\ UNCHANGED fsmVars
    /\ UNCHANGED <<paramVars, bulkVars, current_balance, stop_event, ledger_rows>>
    /\ History
    /\ UNCHANGED <<storeVars, auxVars>>

\* IDLE after its sleep: _set_state(CLICK_ITEM)
IdleDone ==
    /\ pc = "idle_done"
    /\ state' = "CLICK_ITEM"
    /\ out' = <<>>
    /\ Goto("top")
    /\ UNCHANGED <<paramVars, guardVars, bulkVars, current_balance, stop_event,
                   ledger_rows, latest_price, latest_total_price, should_click_item,
                   max_clicked>>
    /\ History
    /\ UNCHANGED <<storeVars, auxVars>>

\* ClickItem clearing the max latch after a failed item click too
ClickItemFailClearsLatch ==
    /\ pc = "ci_click"
    /\ IF should_click_item
       THEN \E title \in ActiveTitles, outcome \in ClickOutcomes :
              LET c == ClickRoi("item", 0, title, outcome)
              IN  /\ GuardStep(c.g)
                  /\ stop_event' = (stop_event \/ c.stops)
                  /\ out' = c.ev
                  /\ IF ~c.ok
                     THEN /\ SleepThen("top")
                          /\ max_clicked' = FALSE
                          /\ UNCHANGED should_click_item
                     ELSE /\ should_click_item' = FALSE
                          /\ max_clicked' = FALSE
                          /\ SleepThen("ci_done")
       ELSE /\ should_click_item' = FALSE
            /\ max_clicked' = FALSE
            /\ out' = <<>>
            /\ SleepThen("ci_done")
            /\ UNCHANGED <<guardVars, stop_event>>
    /\ UNCHANGED <<paramVars, bulkVars, current_balance, ledger_rows, state,
                   latest_price, latest_total_price>>
    /\ History
    /\ UNCHANGED <<storeVars, auxVars>>

\* CLICK_ITEM: the item click when the flag asks for it, then the flags
ClickItem ==
    /\ pc = "ci_click"
    /\ IF should_click_item
       THEN \E title \in ActiveTitles, outcome \in ClickOutcomes :
              LET c == ClickRoi("item", 0, title, outcome)
              IN  /\ GuardStep(c.g)
                  /\ stop_event' = (stop_event \/ c.stops)
                  /\ out' = c.ev
                  /\ IF ~c.ok
                     THEN /\ SleepThen("top")
                          /\ UNCHANGED <<should_click_item, max_clicked>>
                     ELSE /\ should_click_item' = FALSE
                          /\ max_clicked' = FALSE
                          /\ SleepThen("ci_done")
       ELSE /\ should_click_item' = FALSE
            /\ max_clicked' = FALSE
            /\ out' = <<>>
            /\ SleepThen("ci_done")
            /\ UNCHANGED <<guardVars, stop_event>>
    /\ UNCHANGED <<paramVars, bulkVars, current_balance, ledger_rows, state,
                   latest_price, latest_total_price>>
    /\ History
    /\ UNCHANGED <<storeVars, auxVars>>

\* CLICK_ITEM after the item-open wait: _set_state(CHECK_PRICE)
ClickItemDone ==
    /\ pc = "ci_done"
    /\ state' = "CHECK_PRICE"
    /\ out' = <<>>
    /\ Goto("top")
    /\ UNCHANGED <<paramVars, guardVars, bulkVars, current_balance, stop_event,
                   ledger_rows, latest_price, latest_total_price, should_click_item,
                   max_clicked>>
    /\ History
    /\ UNCHANGED <<storeVars, auxVars>>

\* RangeState with the range test dropped / taken as >=
RangeStateAlwaysIn(p) == "IN_RANGE_EXECUTE"
RangeStateInclusive(p) ==
    IF p >= max_price THEN "OUT_OF_RANGE_CLOSE" ELSE "IN_RANGE_EXECUTE"

\* the state CHECK_PRICE moves to for a price it obtained
RangeState(p) ==
    IF p > max_price THEN "OUT_OF_RANGE_CLOSE" ELSE "IN_RANGE_EXECUTE"

\* CHECK_PRICE: the three-attempt price read and the branch on the range
CheckPrice ==
    /\ pc = "cp_read"
    /\ \E title \in ActiveTitles, result \in ReadResults :
         LET r == ReadPrice(3, title, result)
         IN  /\ GuardStep(r.g)
             /\ out' = r.ev
             /\ IF r.value = None
                THEN /\ should_click_item' = TRUE
                     /\ state' = "CLICK_ITEM"
                     /\ UNCHANGED <<latest_price, latest_total_price>>
                ELSE /\ latest_price' = r.value
                     /\ latest_total_price' = None
                     /\ state' = RangeState(r.value)
                     /\ UNCHANGED should_click_item
    /\ Goto("top")
    /\ UNCHANGED <<paramVars, bulkVars, current_balance, stop_event, ledger_rows,
                   max_clicked>>
    /\ History
    /\ UNCHANGED <<storeVars, auxVars>>

\* OUT_OF_RANGE_CLOSE: the close click; a failed click waits the loop delay
\* before the post-close wait
OutOfRangeClose ==
    /\ pc = "oor_click"
    /\ \E title \in ActiveTitles, outcome \in ClickOutcomes :
         LET c == ClickRoi("close", 0, title, outcome)
         IN  /\ GuardStep(c.g)
             /\ stop_event' = (stop_event \/ c.stops)
             /\ out' = c.ev
             /\ IF ~c.ok THEN SleepThen("oor_wait") ELSE SleepThen("oor_done")
    /\ UNCHANGED <<paramVars, fsmVars, bulkVars, current_balance, ledger_rows>>
    /\ History
    /\ UNCHANGED <<storeVars, auxVars>>

\* OUT_OF_RANGE_CLOSE after the loop-delay wait: the post-close wait
OutOfRangeWait ==
    /\ pc = "oor_wait"
    /\ out' = <<>>
    /\ SleepThen("oor_done")
    /\ UNCHANGED <<paramVars, guardVars, fsmVars, bulkVars, current_balance,
                   stop_event, ledger_rows>>
    /\ History
    /\ UNCHANGED <<storeVars, auxVars>>

\* OUT_OF_RANGE_CLOSE after its waits: to WAIT, a new cycle is asked for
OutOfRangeDone ==
    /\ pc = "oor_done"
    /\ state' = "WAIT"
    /\ should_click_item' = TRUE
    /\ latest_total_price' = None
    /\ out' = <<>>
    /\ Goto("top")
    /\ UNCHANGED <<paramVars, guardVars, bulkVars, current_balance, stop_event,
                   ledger_rows, latest_price, max_clicked>>
    /\ History
    /\ UNCHANGED <<storeVars, auxVars>>

\* WaitDone going back to IDLE
WaitDoneToIdle ==
    /\ pc = "wait_done"
    /\ latest_total_price' = None
    /\ state' = "IDLE"
    /\ out' = <<>>
    /\ Goto("top")
    /\ UNCHANGED <<paramVars, guardVars, bulkVars, current_balance, stop_event,
                   ledger_rows, latest_price, should_click_item, max_clicked>>
    /\ History
    /\ UNCHANGED <<storeVars, auxVars>>

\* WAIT after its sleep: the cached total is cleared, to CLICK_ITEM
WaitDone ==
    /\ pc = "wait_done"
    /\ latest_total_price' = None
    /\ state' = "CLICK_ITEM"
    /\ out' = <<>>
    /\ Goto("top")
    /\ UNCHANGED <<paramVars, guardVars, bulkVars, current_balance, stop_event,
                   ledger_rows, latest_price, should_click_item, max_clicked>>
    /\ History
    /\ UNCHANGED <<storeVars, auxVars>>

\* IN_RANGE_EXECUTE: the max click; a failed click goes to WAIT
ExecuteMax ==
    /\ pc = "ire_max"
    /\ \E title \in ActiveTitles, outcome \in ClickOutcomes :
         LET c == ClickRoi("max", 0, title, outcome)
         IN  /\ GuardStep(c.g)
             /\ stop_event' = (stop_event \/ c.stops)
             /\ out' = c.ev
             /\ IF ~c.ok
                THEN state' = "WAIT" /\ Goto("top")
                ELSE UNCHANGED state /\ SleepThen("ire_max_done")
    /\ UNCHANGED <<paramVars, bulkVars, current_balance, ledger_rows, latest_price,
                   latest_total_price, should_click_item, max_clicked>>
    /\ History
    /\ UNCHANGED <<storeVars, auxVars>>

\* IN_RANGE_EXECUTE after the action delay of the max click: the latch
ExecuteMaxDone ==
    /\ pc = "ire_max_done"
    /\ max_clicked' = TRUE
    /\ out' = <<>>
    /\ Goto(AfterMax)
    /\ UNCHANGED <<paramVars, guardVars, bulkVars, current_balance, stop_event,
                   ledger_rows, state, latest_price, latest_total_price,
                   should_click_item>>
    /\ History
    /\ UNCHANGED <<storeVars, auxVars>>

\* Fallback on the price ceiling instead of the last known unit price
FallbackMaxPrice == max_price

\* the spend estimate when the total cannot be read: self._latest_price or 0.0
Fallback == IF latest_price = None THEN 0 ELSE latest_price

\* IN_RANGE_EXECUTE: the single read of the total, cached for the cycle
ExecuteTotal ==
    /\ pc = "ire_total"
    /\ \E title \in ActiveTitles, result \in ReadResults :
         LET r == ReadTotalPrice(1, title, result)
         IN  /\ GuardStep(r.g)
             /\ out' = r.ev
             /\ latest_total_price' =
                    (IF r.value = None THEN Fallback ELSE r.value)
    /\ Goto("ire_buy")
    /\ UNCHANGED <<paramVars, bulkVars, current_balance, stop_event, ledger_rows,
                   state, latest_price, should_click_item, max_clicked>>
    /\ History
    /\ UNCHANGED <<storeVars, auxVars>>

\* ExecuteBuy going on to the re-sample after a failed click
ExecuteBuyIgnoresFailure ==
    /\ pc = "ire_buy"
    /\ IF ~skip_buy
       THEN \E title \in ActiveTitles, outcome \in ClickOutcomes :
              LET c == ClickRoi("buy", 0, title, outcome)
              IN  /\ GuardStep(c.g)
                  /\ stop_event' = (stop_event \/ c.stops)
                  /\ out' = c.ev
                  /\ UNCHANGED state /\ SleepThen("ire_reprice")
       ELSE /\ out' = <<>>
            /\ SleepThen("ire_reprice")
            /\ UNCHANGED <<guardVars, stop_event, state>>
    /\ UNCHANGED <<paramVars, bulkVars, current_balance, ledger_rows, latest_price,
                   latest_total_price, should_click_item, max_clicked>>
    /\ History
    /\ UNCHANGED <<storeVars, auxVars>>

\* IN_RANGE_EXECUTE: the buy click unless skip_buy; a failed click goes to
\* WAIT, else the overlay-dismiss wait follows
ExecuteBuy ==
    /\ pc = "ire_buy"
    /\ IF ~skip_buy
       THEN \E title \in ActiveTitles, outcome \in ClickOutcomes :
              LET c == ClickRoi("buy", 0, title, outcome)
              IN  /\ GuardStep(c.g)
                  /\ stop_event' = (stop_event \/ c.stops)
                  /\ out' = c.ev
                  /\ IF ~c.ok
                     THEN state' = "WAIT" /\ Goto("top")
                     ELSE UNCHANGED state /\ SleepThen("ire_reprice")
       ELSE /\ out' = <<>>
            /\ SleepThen("ire_reprice")
            /\ UNCHANGED <<guardVars, stop_event, state>>
    /\ UNCHANGED <<paramVars, bulkVars, current_balance, ledger_rows, latest_price,
                   latest_total_price, should_click_item, max_clicked>>
    /\ History
    /\ UNCHANGED <<storeVars, auxVars>>

\* IN_RANGE_EXECUTE: the one-attempt re-sample of the price after the buy
ExecuteReprice ==
    /\ pc = "ire_reprice"
    /\ \E title \in ActiveTitles, result \in ReadResults :
         LET r == ReadPrice(1, title, result)
         IN  /\ GuardStep(r.g)
             /\ out' = r.ev
             /\ IF r.value # None
                THEN /\ latest_price' = r.value
                     /\ IF r.value > max_price
                        THEN Goto("ire_close")
                        ELSE Goto("ire_log")
                ELSE /\ UNCHANGED latest_price
                     /\ Goto("ire_log")
    /\ UNCHANGED <<paramVars, bulkVars, current_balance, stop_event, ledger_rows,
                   state, latest_total_price, should_click_item, max_clicked>>
    /\ History
    /\ UNCHANGED <<storeVars, auxVars>>

\* IN_RANGE_EXECUTE, price left the range: the close click, result unused
ExecuteClose ==
    /\ pc = "ire_close"
    /\ \E title \in ActiveTitles, outcome \in ClickOutcomes :
         LET c == ClickRoi("close", 0, title, outcome)
         IN  /\ GuardStep(c.g)
             /\ stop_event' = (stop_event \/ c.stops)
             /\ out' = c.ev
    /\ SleepThen("ire_close_done")
    /\ UNCHANGED <<paramVars, fsmVars, bulkVars, current_balance, ledger_rows>>
    /\ History
    /\ UNCHANGED <<storeVars, auxVars>>

\* IN_RANGE_EXECUTE after the post-close wait: to WAIT, a new cycle
ExecuteCloseDone ==
    /\ pc = "ire_close_done"
    /\ should_click_item' = TRUE
    /\ latest_total_price' = None
    /\ state' = "WAIT"
    /\ out' = <<>>
    /\ Goto("top")
    /\ UNCHANGED <<paramVars, guardVars, bulkVars, current_balance, stop_event,
                   ledger_rows, latest_price, max_clicked>>
    /\ History
    /\ UNCHANGED <<storeVars, auxVars>>

\* IN_RANGE_EXECUTE, price still in range or not re-read: the trade is
\* recorded when a unit price and a total are known, BUY_PLACED, and the
\* loop continues in the same state
ExecuteLog ==
    /\ pc = "ire_log"
    /\ IF latest_price # None /\ latest_total_price # None
       THEN \E written \in BOOLEAN :
                 LogTrade(latest_price, 1, latest_total_price, written,
                          <<Status("BUY_PLACED")>>, "top")
       ELSE /\ out' = <<Status("BUY_PLACED")>>
            /\ Goto("top")
            /\ UNCHANGED <<current_balance, ledger_rows>>
    /\ UNCHANGED <<paramVars, guardVars, fsmVars, bulkVars, stop_event>>
    /\ History
    /\ UNCHANGED <<storeVars, auxVars>>

\* -------------------------------------------------------------- bulk mode
\* max(1.0, buy_amount)
Max1(a) == IF a < 1 THEN 1 ELSE a

\* TargetPrice with + for the product
TargetPriceSum == max_price + Max1(buy_amount)

\* target_price of _bulk_loop
TargetPrice == max_price * Max1(buy_amount)

\* _bulk_loop: the while condition, the focus guard, and the pending
\* confirm delay taken over by the confirm click
BulkLoopHead ==
    /\ pc = "b_top"
    /\ IF ~LoopCondition
       THEN /\ out' = ExitEvents
            /\ Goto("done")
            /\ UNCHANGED guardVars
       ELSE \E title \in ActiveTitles :
              LET g == EnsureTargetWindow(title)
              IN  /\ GuardStep(g)
                  /\ out' = g.ev
                  /\ IF ~g.ok THEN SleepThen("b_top") ELSE Goto("b_confirm")
    /\ UNCHANGED <<paramVars, fsmVars, bulkVars, current_balance, stop_event,
                   ledger_rows>>
    /\ History
    /\ UNCHANGED <<storeVars, auxVars>>

\* the confirm click, with the extra delay when the last iteration cancelled
BulkConfirm ==
    /\ pc = "b_confirm"
    /\ \E title \in ActiveTitles, outcome \in ClickOutcomes :
         LET pre_delay == IF pending_confirm_delay THEN ConfirmPreDelayMs ELSE 0
             c == ClickRoi("confirm", pre_delay, title, outcome)
         IN  /\ GuardStep(c.g)
             /\ stop_event' = (stop_event \/ c.stops)
             /\ out' = c.ev
             /\ IF ~c.ok THEN SleepThen("b_top") ELSE SleepThen("b_move")
    /\ pending_confirm_delay' = FALSE
    /\ UNCHANGED <<paramVars, fsmVars, current_balance, ledger_rows, price,
                   attempts_remaining>>
    /\ History
    /\ UNCHANGED <<storeVars, auxVars>>

\* the pointer is moved near cancel outside any handler: an exception of
\* pyautogui.moveTo (the fail-safe included) escapes the loop
BulkMove ==
    /\ pc = "b_move"
    /\ \E raised \in {"", "FailSafeException", "Exception"} :
         IF raised # ""
         THEN /\ out' = <<Ev("raise", raised, <<>>)>> \o FatalEvents("moveTo")
              /\ Goto("done")
         ELSE /\ out' = <<Ev("move", "cancel", <<>>)>>
              /\ Goto("b_read")
    /\ UNCHANGED <<paramVars, guardVars, fsmVars, bulkVars, current_balance,
                   stop_event, ledger_rows>>
    /\ History
    /\ UNCHANGED <<storeVars, auxVars>>

\* price and attempts_remaining are locals of one iteration of _bulk_loop:
\* they are None and 0 wherever the code no longer reads them.
\* AfterRead without the comparison with the target
AfterReadNoTarget(p, left) ==
    IF p = None /\ left > 0 /\ ~stop_event THEN "b_retry"
    ELSE IF p = None THEN "b_cancel_unread"
    ELSE "b_buy"

\* where the retry loop of the price read continues
AfterRead(p, left) ==
    IF p = None /\ left > 0 /\ ~stop_event THEN "b_retry"
    ELSE IF p = None THEN "b_cancel_unread"
    ELSE IF p > TargetPrice THEN "b_cancel_above"
    ELSE "b_buy"

\* the first price read of an iteration, two retries left
BulkRead ==
    /\ pc = "b_read"
    /\ \E title \in ActiveTitles, result \in ReadResults :
         LET r == ReadPrice(1, title, result)
         IN  /\ GuardStep(r.g)
             /\ out' = r.ev
             /\ price' = r.value
             /\ attempts_remaining' =
                    (IF AfterRead(r.value, 2) = "b_retry" THEN 2 ELSE 0)
             /\ Goto(AfterRead(r.value, 2))
    /\ UNCHANGED <<paramVars, fsmVars, current_balance, stop_event, ledger_rows,
                   pending_confirm_delay>>
    /\ History
    /\ UNCHANGED <<storeVars, auxVars>>

\* a retry of the price read: the half action delay
BulkRetryWait ==
    /\ pc = "b_retry"
    /\ out' = <<>>
    /\ SleepThen("b_reread")
    /\ UNCHANGED <<paramVars, guardVars, fsmVars, bulkVars, current_balance,
                   stop_event, ledger_rows>>
    /\ History
    /\ UNCHANGED <<storeVars, auxVars>>

\* a retry of the price read: the read
BulkReread ==
    /\ pc = "b_reread"
    /\ \E title \in ActiveTitles, result \in ReadResults :
         LET r == ReadPrice(1, title, result)
         IN  /\ GuardStep(r.g)
             /\ out' = r.ev
             /\ price' = r.value
             /\ attempts_remaining' =
                    (IF AfterRead(r.value, attempts_remaining - 1) = "b_retry"
                     THEN attempts_remaining - 1 ELSE 0)
             /\ Goto(AfterRead(r.value, attempts_remaining - 1))
    /\ UNCHANGED <<paramVars, fsmVars, current_balance, stop_event, ledger_rows,
                   pending_confirm_delay>>
    /\ History
    /\ UNCHANGED <<storeVars, auxVars>>

\* the price never resolved: cancel, one action delay
BulkCancelUnread ==
    /\ pc = "b_cancel_unread"
    /\ \E title \in ActiveTitles, outcome \in ClickOutcomes :
         LET c == ClickRoi("cancel", 0, title, outcome)
         IN  /\ GuardStep(c.g)
             /\ stop_event' = (stop_event \/ c.stops)
             /\ out' = c.ev
    /\ SleepThen("b_pending")
    /\ price' = None
    /\ UNCHANGED <<paramVars, fsmVars, current_balance, ledger_rows,
                   pending_confirm_delay, attempts_remaining>>
    /\ History
    /\ UNCHANGED <<storeVars, auxVars>>

\* the price exceeds the target: cancel, two action delays
BulkCancelAbove ==
    /\ pc = "b_cancel_above"
    /\ \E title \in ActiveTitles, outcome \in ClickOutcomes :
         LET c == ClickRoi("cancel", 0, title, outcome)
         IN  /\ GuardStep(c.g)
             /\ stop_event' = (stop_event \/ c.stops)
             /\ out' = c.ev
    /\ SleepThen("b_above_wait")
    /\ price' = None
    /\ UNCHANGED <<paramVars, fsmVars, current_balance, ledger_rows,
                   pending_confirm_delay, attempts_remaining>>
    /\ History
    /\ UNCHANGED <<storeVars, auxVars>>

\* the second action delay after a cancel above target
BulkAboveWait ==
    /\ pc = "b_above_wait"
    /\ out' = <<>>
    /\ SleepThen("b_pending")
    /\ UNCHANGED <<paramVars, guardVars, fsmVars, bulkVars, current_balance,
                   stop_event, ledger_rows>>
    /\ History
    /\ UNCHANGED <<storeVars, auxVars>>

\* BulkPending leaving the confirm delay as it is
BulkPendingNoDelay ==
    /\ pc = "b_pending"
    /\ out' = <<>>
    /\ Goto("b_top")
    /\ UNCHANGED <<paramVars, guardVars, fsmVars, current_balance, stop_event,
                   ledger_rows, bulkVars>>
    /\ History
    /\ UNCHANGED <<storeVars, auxVars>>

\* after a cancel: the next confirm is delayed, retry from confirm
BulkPending ==
    /\ pc = "b_pending"
    /\ pending_confirm_delay' = TRUE
    /\ out' = <<>>
    /\ Goto("b_top")
    /\ UNCHANGED <<paramVars, guardVars, fsmVars, current_balance, stop_event,
                   ledger_rows, price, attempts_remaining>>
    /\ History
    /\ UNCHANGED <<storeVars, auxVars>>

\* the price is within target: the buy click; a failed click waits the
\* action delay and retries from confirm
BulkBuy ==
    /\ pc = "b_buy"
    /\ \E title \in ActiveTitles, outcome \in ClickOutcomes :
         LET c == ClickRoi("buy", 0, title, outcome)
         IN  /\ GuardStep(c.g)
             /\ stop_event' = (stop_event \/ c.stops)
             /\ out' = c.ev
             /\ IF c.ok
                THEN UNCHANGED price /\ Goto("b_log")
                ELSE price' = None /\ SleepThen("b_top")
    /\ UNCHANGED <<paramVars, fsmVars, current_balance, ledger_rows,
                   pending_confirm_delay, attempts_remaining>>
    /\ History
    /\ UNCHANGED <<storeVars, auxVars>>

\* UnitPrice without the division
UnitPriceUndivided == [n |-> price, d |-> 1]

\* unit_price of _bulk_loop, the quotient n/d
UnitPrice == [n |-> price, d |-> Max1(buy_amount)]

\* after a delivered buy click: the trade of unit price price/max(1,
\* buy_amount) and spend price, BUY_PLACED, and the loop is left
BulkLog ==
    /\ pc = "b_log"
    /\ \E written \in BOOLEAN :
         LogTrade(UnitPrice.n, UnitPrice.d, price, written,
                  <<Status("BUY_PLACED")>> \o ExitEvents, "done")
    /\ UNCHANGED <<paramVars, guardVars, fsmVars, bulkVars, stop_event>>
    /\ History
    /\ UNCHANGED <<storeVars, auxVars>>

\* ------------------------------------------------------ the specification
Next ==
    \/ Stop
    \/ Run
    \/ SleepPoll
    \/ SimpleLoopHead
    \/ IdleDone
    \/ ClickItem
    \/ ClickItemDone
    \/ CheckPrice
    \/ OutOfRangeClose
    \/ OutOfRangeWait
    \/ OutOfRangeDone
    \/ WaitDone
    \/ ExecuteMax
    \/ ExecuteMaxDone
    \/ ExecuteTotal
    \/ ExecuteBuy
    \/ ExecuteReprice
    \/ ExecuteClose
    \/ ExecuteCloseDone
    \/ ExecuteLog
    \/ BulkLoopHead
    \/ BulkConfirm
    \/ BulkMove
    \/ BulkRead
    \/ BulkRetryWait
    \/ BulkReread
    \/ BulkCancelUnread
    \/ BulkCancelAbove
    \/ BulkAboveWait
    \/ BulkPending
    \/ BulkBuy
    \/ BulkLog

Spec == Init /\ [][Next]_vars

\* a step of the worker thread (any step but the controller's stop())
Engine ==
    \/ Run
    \/ SleepPoll
    \/ SimpleLoopHead
    \/ IdleDone
    \/ ClickItem
    \/ ClickItemDone
    \/ CheckPrice
    \/ OutOfRangeClose
    \/ OutOfRangeWait
    \/ OutOfRangeDone
    \/ WaitDone
    \/ ExecuteMax
    \/ ExecuteMaxDone
    \/ ExecuteTotal
    \/ ExecuteBuy
    \/ ExecuteReprice
    \/ ExecuteClose
    \/ ExecuteCloseDone
    \/ ExecuteLog
    \/ BulkLoopHead
    \/ BulkConfirm
    \/ BulkMove
    \/ BulkRead
    \/ BulkRetryWait
    \/ BulkReread
    \/ BulkCancelUnread
    \/ BulkCancelAbove
    \/ BulkAboveWait
    \/ BulkPending
    \/ BulkBuy
    \/ BulkLog

\* the worker thread keeps running while it has a step to take: every
\* capture, OCR and pointer call returns, and time.sleep returns
FairSpec == Spec /\ WF_vars(Engine)

\* the runs of the engine with their history kept
HistSpec == InitWith(TRUE) /\ [][Next]_vars

\* ------------------------------------------- the store and the start button
\* the window before any run: SettingsManager.__init__ without a settings
\* file, no worker; the engine's variables are those of a worker yet to be
\* built and stay as they are
StoreInit ==
    /\ rois = [m \in Methods |-> [name \in ROI_GROUPS[m] |-> NoRoi]]
    /\ worker = FALSE
    /\ current_buy_method = "simple"
    /\ buy_method = "simple"
    /\ max_price = 1
    /\ balance_floor = 0
    /\ current_balance = 0
    /\ buy_amount = 1
    /\ skip_buy = FALSE
    /\ skip_max = FALSE
    /\ target_window = <<>>
    /\ focus_warning_active = FALSE
    /\ state = "IDLE"
    /\ latest_price = None
    /\ latest_total_price = None
    /\ should_click_item = TRUE
    /\ max_clicked = FALSE
    /\ pending_confirm_delay = FALSE
    /\ stop_event = FALSE
    /\ pc = "run"
    /\ ret = ""
    /\ deadline_ahead = FALSE
    /\ price = None
    /\ attempts_remaining = 0
    /\ ledger_rows = 0
    /\ out = <<>>
    /\ fail_run = 0
    /\ wait_emits = 0
    /\ ready_emits = 0
    /\ ended_run = 0
    /\ op_after_stop = FALSE
    /\ HistInit(FALSE)
    /\ AuxIdle

\* SettingsManager.set_roi
SetRoi(name, rect, method) ==
    /\ name \in ROI_GROUPS[method]
    /\ rois' = [rois EXCEPT ![method][name] = rect]

\* a drag on the capture overlay opened for region name of a mode
\* (RoiCaptureOverlay.mouseReleaseEvent), then MainWindow._on_roi_selected
\* and _save_roi: a rectangle of 5 by 5 logical pixels or more is stored,
\* a smaller one cancels the selection
RoiSelected ==
    /\ \E method \in Methods, lw \in LogicalSizes, lh \in LogicalSizes,
          ratio \in Ratios :
         \E name \in ROI_GROUPS[method] :
            IF lw >= 5 /\ lh >= 5
            THEN SetRoi(name, RectToPhysical(lw, lh, ratio), method)
            ELSE rois' = rois
    /\ UNCHANGED <<worker, current_buy_method, engineVars, auxVars>>

\* SettingsManager.reset_roi
ResetRoi ==
    /\ \E method \in Methods : \E name \in ROI_GROUPS[method] :
         rois' = [rois EXCEPT ![method][name] = NoRoi]
    /\ UNCHANGED <<worker, current_buy_method, engineVars, auxVars>>

\* SettingsManager.load at the next launch of the program: the file is the
\* one the last save wrote, with one region as edited by hand; every region
\* is normalised; the new window has no worker and selects the file's mode
Load ==
    /\ \E method \in Methods, raw \in RawRois :
         \E name \in ROI_GROUPS[method] :
            LET file == [rois EXCEPT ![method][name] = raw]
            IN  rois' = [m \in Methods |->
                           [n \in ROI_GROUPS[m] |-> NormalizeRoi(file[m][n])]]
    /\ worker' = FALSE
    /\ current_buy_method' \in Methods
    /\ UNCHANGED <<engineVars, auxVars>>

\* the checks of MainWindow._on_start (lines 684-706) that a start passes
\* before it builds a worker
StartChecks(method, max_price_spin, bulk_max_price_spin, bulk_buy_amount_spin, target, tesseract) ==
    /\ AllRoisReady(method)
    /\ IF method = "bulk"
       THEN bulk_max_price_spin > 0 /\ bulk_buy_amount_spin > 0
       ELSE max_price_spin > 0
    /\ Strip(target) # <<>>
    /\ tesseract

\* MainWindow._on_start: the selected mode, the price and amount fields, the
\* target window field and the presence of the OCR engine are its inputs
OnStart ==
    /\ ~worker
    /\ \E method \in Methods, max_price_spin \in {0, 1},
          bulk_max_price_spin \in {0, 1}, bulk_buy_amount_spin \in {0, 1},
          target \in TargetTitles, tesseract \in BOOLEAN :
         /\ current_buy_method' = method
         /\ worker' = StartChecks(method, max_price_spin, bulk_max_price_spin,
                                  bulk_buy_amount_spin, target, tesseract)
    /\ UNCHANGED <<rois, engineVars, auxVars>>

\* MainWindow._on_worker_finished
OnWorkerFinished ==
    /\ worker
    /\ worker' = FALSE
    /\ UNCHANGED <<rois, current_buy_method, engineVars, auxVars>>

StoreNext ==
    \/ RoiSelected
    \/ ResetRoi
    \/ Load
    \/ OnStart
    \/ OnWorkerFinished

StoreSpec == StoreInit /\ [][StoreNext]_vars

\* --------------------------------------------------- the window and its runs
\* no engine has been built (position "unbuilt")
NoEngine ==
    /\ buy_method = "simple"
    /\ max_price = 1
    /\ balance_floor = 0
    /\ current_balance = 0
    /\ buy_amount = 1
    /\ skip_buy = FALSE
    /\ skip_max = FALSE
    /\ target_window = <<>>
    /\ focus_warning_active = FALSE
    /\ state = "IDLE"
    /\ latest_price = None
    /\ latest_total_price = None
    /\ should_click_item = TRUE
    /\ max_clicked = FALSE
    /\ pending_confirm_delay = FALSE
    /\ stop_event = FALSE
    /\ pc = "unbuilt"
    /\ ret = ""
    /\ deadline_ahead = FALSE
    /\ price = None
    /\ attempts_remaining = 0
    /\ ledger_rows = 0
    /\ out = <<>>
    /\ fail_run = 0
    /\ wait_emits = 0
    /\ ready_emits = 0
    /\ ended_run = 0
    /\ op_after_stop = FALSE
    /\ HistInit(FALSE)

\* the window before its first run, with every region captured or with none:
\* no worker and no engine
AppInit ==
    /\ \E r \in {NoRoi, <<0, 0, 5, 5>>} :
         rois = [m \in Methods |-> [name \in ROI_GROUPS[m] |-> r]]
    /\ worker = FALSE
    /\ current_buy_method = "simple"
    /\ NoEngine
    /\ AuxIdle

BuildWorkerKeepsState(method, price_limit, balance, floor, amount, sbuy, smax, title) ==
    /\ buy_method' = method
    /\ max_price' = price_limit
    /\ current_balance' = balance
    /\ balance_floor' = floor
    /\ buy_amount' = amount
    /\ skip_buy' = sbuy
    /\ skip_max' = smax
    /\ target_window' = Strip(title)
    /\ pc' = "run"
    /\ ret' = ""
    /\ deadline_ahead' = FALSE
    /\ out' = <<>>
    /\ ledger_rows' = ledger_rows
    /\ fail_run' = 0
    /\ wait_emits' = 0
    /\ ready_emits' = 0
    /\ ended_run' = 0
    /\ op_after_stop' = FALSE
    /\ HistReset
    /\ UNCHANGED <<focus_warning_active, fsmVars, bulkVars, stop_event>>

\* BotParams(...) and BotWorker(rois, params, trade_logger) as _on_start
\* builds them (gui.py 715-736, BotWorker.__init__): a new engine at the
\* start of run(), none of whose fields comes from an earlier engine; the
\* ledger is the window's and keeps its rows
BuildWorker(method, price_limit, balance, floor, amount, sbuy, smax, title) ==
    /\ buy_method' = method
    /\ max_price' = price_limit
    /\ current_balance' = balance
    /\ balance_floor' = floor
    /\ buy_amount' = amount
    /\ skip_buy' = sbuy
    /\ skip_max' = smax
    /\ target_window' = Strip(title)
    /\ stop_event' = FALSE
    /\ state' = "IDLE"
    /\ latest_price' = None
    /\ latest_total_price' = None
    /\ should_click_item' = TRUE
    /\ focus_warning_active' = FALSE
    /\ max_clicked' = FALSE
    /\ pending_confirm_delay' = FALSE
    /\ price' = None
    /\ attempts_remaining' = 0
    /\ pc' = "run"
    /\ ret' = ""
    /\ deadline_ahead' = FALSE
    /\ out' = <<>>
    /\ ledger_rows' = ledger_rows
    /\ fail_run' = 0
    /\ wait_emits' = 0
    /\ ready_emits' = 0
    /\ ended_run' = 0
    /\ op_after_stop' = FALSE
    /\ HistReset

\* MainWindow._on_start with the worker it builds and starts: a start while
\* a worker exists returns at once (line 680); a start that fails a check
\* changes the selected mode only; the fields of the mode that is not
\* selected are not read and are held at 1
AppStart ==
    /\ ~worker
    /\ \E method \in Methods, target \in TargetTitles, tesseract \in BOOLEAN :
       \E max_price_spin \in
              (IF method = "simple" THEN 0..(MaxMoney - 1) ELSE {1}),
          bulk_max_price_spin \in
              (IF method = "bulk" THEN 0..(MaxMoney - 1) ELSE {1}),
          bulk_buy_amount_spin \in
              (IF method = "bulk" THEN {0, 1, 2} ELSE {1}) :
         /\ current_buy_method' = method
         /\ IF StartChecks(method, max_price_spin, bulk_max_price_spin,
                           bulk_buy_amount_spin, target, tesseract)
            THEN /\ worker' = TRUE
                 /\ \E balance \in 0..MaxMoney, floor \in {0, 1},
                       sbuy \in BOOLEAN,
                       smax \in (IF method = "bulk" THEN {FALSE} ELSE BOOLEAN) :
                      BuildWorker(method,
                                  IF method = "simple" THEN max_price_spin
                                  ELSE bulk_max_price_spin,
                                  balance, floor,
                                  IF method = "bulk" THEN bulk_buy_amount_spin
                                  ELSE 1,
                                  sbuy, smax, target)
            ELSE UNCHANGED <<worker, engineVars>>
    /\ UNCHANGED <<rois, auxVars>>

\* MainWindow._on_stop: stop() of the worker, when there is one
OnStop == worker /\ Stop

\* MainWindow._on_worker_finished, on the thread's finished signal, which
\* follows the return of run()
AppWorkerFinished == pc = "done" /\ OnWorkerFinished

AppNext ==
    \/ AppStart
    \/ OnStop
    \/ AppWorkerFinished
    \/ Engine

AppSpec == AppInit /\ [][AppNext]_vars

\* ------------------------------------------------- calls of parse_numeric
\* the window of a program that is not running: nothing captured, no worker
NoWindow ==
    /\ rois = [m \in Methods |-> [name \in ROI_GROUPS[m] |-> NoRoi]]
    /\ worker = FALSE
    /\ current_buy_method = "simple"

DigitChar(d) ==
    CASE d = 0 -> "0" [] d = 1 -> "1" [] d = 2 -> "2" [] d = 3 -> "3"
      [] d = 4 -> "4" [] d = 5 -> "5" [] d = 6 -> "6" [] d = 7 -> "7"
      [] d = 8 -> "8" [] d = 9 -> "9"

\* the decimal digits of a non-negative integer
RECURSIVE ToDigits(_)
ToDigits(n) ==
    IF n < 10 THEN <<DigitChar(n)>>
    ELSE ToDigits(n \div 10) \o <<DigitChar(n % 10)>>

\* a string of digits with sep between its groups of three, from the right
RECURSIVE Group3(_, _)
Group3(ds, sep) ==
    IF Len(ds) <= 3 THEN ds
    ELSE Group3(SubSeq(ds, 1, Len(ds) - 3), sep) \o <<sep>>
         \o SubSeq(ds, Len(ds) - 2, Len(ds))

\* an integer written with 3-digit grouping
Grouped(n, sep) == Group3(ToDigits(n), sep)

\* the integers written with grouping: all the small ones, and some around
\* the powers of a thousand
RoundTripNumbers ==
    (0..MaxGrouped)
    \cup {9999, 10000, 99999, 100000, 999999, 1000000, 1000001, 1234567,
          12345678}

\* the characters of the texts tried in every arrangement
TextChars == {"1", "2", ",", ".", "'", "K", " "}

\* texts of the OCR engine: every text of TextChars up to MaxText characters,
\* and some longer ones
AllTexts == UNION {[1..n -> TextChars] : n \in 0..MaxText}
LongTexts ==
    {<<"1", ".", "2", "3", "4", ",", "5", "6">>,
     <<"1", ",", "2", "3", "4", ".", "5", "6">>,
     <<"1", "2", "3", "4", ",", "5">>,
     <<"1", "2", "3", "4", ".", "5">>,
     <<"1", "2", ".", "3", "4", "5", ".", "6", "7", "8">>,
     <<" ", "1", "'", "2", "3", "4", "#", "5", "6", "7", "\n">>,
     <<"K", "5", "0", "0", "K", "7">>,
     <<"1", "2", ",", "3", "4", "5", "6">>,
     <<"1", ",", "2", "3", ",", "4", "5", "6">>}

\* a call of parse_numeric is about to be made on a text
ParseInit ==
    /\ \/ text \in AllTexts \cup LongTexts /\ formatted = None
       \/ \E n \in RoundTripNumbers, sep \in {",", "."} :
             text = Grouped(n, sep) /\ formatted = n
    /\ parsed = Pending
    /\ NoEngine
    /\ NoWindow
    /\ SampleIdle
    /\ LedgerIdle

\* the call returns
Parse ==
    /\ parsed = Pending
    /\ parsed' = ParseNumeric(text)
    /\ UNCHANGED <<text, formatted, engineVars, storeVars, sampleVars,
                   ledgerVars>>

ParseNext == Parse

ParseSpec == ParseInit /\ [][ParseNext]_vars

\* -------------------------------------------- calls of read_price_average
\* the exception of a capture or of the OCR engine, in place of a text
OcrRaises == <<"TesseractError">>

\* what pytesseract.image_to_string yields for one frame
OcrTexts ==
    {<<"5", "0", "0">>, <<" ", "5", "0", "0", "\n">>, <<"K">>, <<>>,
     <<"1", ",", "5">>, <<"2", "0", "0">>, <<"1", ".", "0", "0", "0", "\n">>}

RECURSIVE LStripText(_)
LStripText(s) ==
    IF s # <<>> /\ Head(s) \in Whitespace THEN LStripText(Tail(s)) ELSE s

RECURSIVE RStripText(_)
RStripText(s) ==
    IF s # <<>> /\ s[Len(s)] \in Whitespace
    THEN RStripText(SubSeq(s, 1, Len(s) - 1))
    ELSE s

\* text.strip() of line 114
StripText(s) == RStripText(LStripText(s))

\* a + b for numbers <<n, d>>, over the larger of the two denominators
\* (both are powers of ten)
Add(a, b) ==
    LET d == IF a[2] >= b[2] THEN a[2] ELSE b[2]
    IN  <<a[1] * (d \div a[2]) + b[1] * (d \div b[2]), d>>

\* sum(results), from 0
RECURSIVE Sum(_)
Sum(rs) == IF rs = <<>> THEN <<0, 1>> ELSE Add(Sum(SubSeq(rs, 1, Len(rs) - 1)), rs[Len(rs)])

\* a call read_price_average(roi, attempts) begins; the frames it will
\* capture hold the texts ocr_texts, one per attempt
SampleInit ==
    /\ \E attempts \in 0..MaxAttempts :
          ocr_texts \in [1..attempts -> OcrTexts \cup {OcrRaises}]
    /\ attempt = 0
    /\ results = <<>>
    /\ raw_samples = <<>>
    /\ sample_pc = "loop"
    /\ sample_ret = <<NoNumber, <<>>>>
    /\ ParseIdle
    /\ LedgerIdle
    /\ NoEngine
    /\ NoWindow

\* one pass of the loop of lines 111-117; an exception of the capture or of
\* the OCR engine leaves the function
SampleAttempt ==
    /\ sample_pc = "loop"
    /\ attempt < Len(ocr_texts)
    /\ LET t == ocr_texts[attempt + 1]
           value == ParseNumeric(t)
       IN  IF t = OcrRaises
           THEN /\ sample_pc' = "raised"
                /\ UNCHANGED <<attempt, results, raw_samples>>
           ELSE /\ attempt' = attempt + 1
                /\ raw_samples' = Append(raw_samples, StripText(t))
                /\ results' = IF value # NoNumber THEN Append(results, value)
                              ELSE results
                /\ UNCHANGED sample_pc
    /\ UNCHANGED <<ocr_texts, sample_ret, parseVars, ledgerVars, engineVars,
                   storeVars>>

SampleReturnOverAttempts ==
    /\ sample_pc = "loop"
    /\ attempt = Len(ocr_texts)
    /\ sample_pc' = "returned"
    /\ sample_ret' =
         IF results # <<>>
         THEN <<<<Sum(results)[1], Sum(results)[2] * attempt>>, raw_samples>>
         ELSE <<NoNumber, raw_samples>>
    /\ UNCHANGED <<ocr_texts, attempt, results, raw_samples, parseVars,
                   ledgerVars, engineVars, storeVars>>

\* lines 118-121: the average of the parsed values, or None, with the raw
\* samples (the quotient is kept exact; the float rounds it)
SampleReturn ==
    /\ sample_pc = "loop"
    /\ attempt = Len(ocr_texts)
    /\ sample_pc' = "returned"
    /\ sample_ret' =
         IF results # <<>>
         THEN <<<<Sum(results)[1], Sum(results)[2] * Len(results)>>,
                raw_samples>>
         ELSE <<NoNumber, raw_samples>>
    /\ UNCHANGED <<ocr_texts, attempt, results, raw_samples, parseVars,
                   ledgerVars, engineVars, storeVars>>

SampleNext ==
    \/ SampleAttempt
    \/ SampleReturn

SampleSpec == SampleInit /\ [][SampleNext]_vars

\* ------------------------------------------- threads in TradeLogger.append
\* The row of call c of thread w reaches the file as two pieces, <<w, c, 1>>
\* (its cells) and <<w, c, 2>> (its line terminator): closing the handle
\* flushes its buffer in one write of the operating system or in several.
RowPieces(w, c) == <<<<w, c, 1>>, <<w, c, 2>>>>

\* the number of the call thread w is making, or will make next
CallOf(w) == Len(woutcome[w]) + 1

LedgerInit ==
    /\ LedgerIdle
    /\ ParseIdle
    /\ SampleIdle
    /\ NoEngine
    /\ NoWindow

LedgerFrame == UNCHANGED <<parseVars, sampleVars, engineVars, storeVars>>

\* a thread calls append(row)
AppendCall(w) ==
    /\ wpc[w] = "idle"
    /\ CallOf(w) <= MaxCalls
    /\ wpc' = [wpc EXCEPT ![w] = "acquire"]
    /\ UNCHANGED <<ledger_lock, ledger_file, wbuffer, woutcome>>
    /\ LedgerFrame

AcquireUnguarded(w) ==
    /\ wpc[w] = "acquire"
    /\ ledger_lock' = w
    /\ wpc' = [wpc EXCEPT ![w] = "open"]
    /\ UNCHANGED <<ledger_file, wbuffer, woutcome>>
    /\ LedgerFrame

\* with self._lock: the thread waits until the lock is free and takes it
Acquire(w) ==
    /\ wpc[w] = "acquire"
    /\ ledger_lock = 0
    /\ ledger_lock' = w
    /\ wpc' = [wpc EXCEPT ![w] = "open"]
    /\ UNCHANGED <<ledger_file, wbuffer, woutcome>>
    /\ LedgerFrame

\* self.path.open("a"): a handle with an empty buffer, or an OSError, which
\* leaves the with statement (the lock is released) and the call
Open(w) ==
    /\ wpc[w] = "open"
    /\ \E opened \in BOOLEAN :
          IF opened
          THEN /\ wpc' = [wpc EXCEPT ![w] = "write"]
               /\ UNCHANGED <<ledger_lock, woutcome>>
          ELSE /\ wpc' = [wpc EXCEPT ![w] = "idle"]
               /\ ledger_lock' = IF ledger_lock = w THEN 0 ELSE ledger_lock
               /\ woutcome' = [woutcome EXCEPT ![w] = Append(@, "raised")]
    /\ UNCHANGED <<ledger_file, wbuffer>>
    /\ LedgerFrame

\* writer.writerow(row): the row goes to the handle's buffer
WriteRow(w) ==
    /\ wpc[w] = "write"
    /\ wbuffer' = [wbuffer EXCEPT ![w] = RowPieces(w, CallOf(w))]
    /\ wpc' = [wpc EXCEPT ![w] = "close"]
    /\ UNCHANGED <<ledger_lock, ledger_file, woutcome>>
    /\ LedgerFrame

\* the handle is closed: one write of the operating system appends the
\* buffer, or a first part of it, to the end of the file (mode "a")
Flush(w) ==
    /\ wpc[w] = "close"
    /\ wbuffer[w] # <<>>
    /\ \E k \in 1..Len(wbuffer[w]) :
          /\ ledger_file' = ledger_file \o SubSeq(wbuffer[w], 1, k)
          /\ wbuffer' = [wbuffer EXCEPT
                           ![w] = SubSeq(@, k + 1, Len(@))]
    /\ UNCHANGED <<ledger_lock, wpc, woutcome>>
    /\ LedgerFrame

\* the end of the with statement: the handle is closed, the lock released,
\* and append returns
Release(w) ==
    /\ wpc[w] = "close"
    /\ wbuffer[w] = <<>>
    /\ ledger_lock' = IF ledger_lock = w THEN 0 ELSE ledger_lock
    /\ wpc' = [wpc EXCEPT ![w] = "idle"]
    /\ woutcome' = [woutcome EXCEPT ![w] = Append(@, "ok")]
    /\ UNCHANGED <<ledger_file, wbuffer>>
    /\ LedgerFrame

LedgerNext ==
    \E w \in Writers :
        \/ AppendCall(w)
        \/ Acquire(w)
        \/ Open(w)
        \/ WriteRow(w)
        \/ Flush(w)
        \/ Release(w)

LedgerSpec == LedgerInit /\ [][LedgerNext]_vars

\* ================================================================ claims
\* the steps' events, as the claims read them
Has(k, n) == \E i \in DOMAIN out : out[i].k = k /\ out[i].n = n
HasStatus(n) == Has("status", n)
HasKind(k) == \E i \in DOMAIN out : out[i].k = k
Clicked(name) == Has("click", name)

\* a step recorded a trade (made _log_trade's deduction)
Recorded == HasKind("deduct")

\* C1: in simple mode the buy region is clicked only while the price last
\* read (by CHECK_PRICE or by the re-sample of IN_RANGE_EXECUTE) is known
\* and is <= max_price.
C1_BuyOnlyInRange ==
    (buy_method = "simple" /\ Clicked("buy"))
        => (latest_price # None /\ latest_price <= max_price)

\* a buy click of the buy-spam loop: after a trade of the same run, at a
\* price equal to max_price
C1_Witness ==
    /\ buy_method = "simple"
    /\ Clicked("buy")
    /\ ledger_rows > 0
    /\ latest_price = max_price

\* C2: after every trade recording the running balance is >= 0, also when
\* the amount spent exceeds the balance before it.
C2_BalanceNeverNegative ==
    /\ Recorded => current_balance >= 0
    /\ \A i \in DOMAIN out :
         /\ out[i].k = "deduct" => out[i].v[3] >= 0
         /\ out[i].k = "balance_changed" => out[i].v[1] >= 0
         /\ out[i].k = "log_entry" => out[i].v[4] >= 0

\* the second recording of a run spends more than the balance it finds
C2_Witness ==
    /\ ledger_rows = 2
    /\ current_balance = 0
    /\ \E i \in DOMAIN out :
         out[i].k = "deduct" /\ out[i].v[2] > out[i].v[1]

\* C3: no step of either loop raises current_balance, and no recorded
\* amount spent is negative.
C3_BalanceNonIncreasing ==
    [][/\ current_balance' <= current_balance
       /\ \A i \in DOMAIN out' :
            out'[i].k = "deduct" => out'[i].v[2] >= 0]_vars

\* a recording lowered the balance
C3_Witness ==
    \E i \in DOMAIN out :
        /\ out[i].k = "deduct"
        /\ out[i].v[3] < out[i].v[1]
        /\ current_balance = out[i].v[3]

\* C4: every record(unitPrice, amountSpent) makes, in this order, one
\* deduction (new balance = max(0, old - amountSpent)), one ledger row
\* append, one trade-logged event and one balance-changed event, all three
\* carrying the new balance (the row as its two-decimal text).
C4_RecordEffects ==
    Recorded =>
        /\ Len(out) >= 4
        /\ out[1].k = "deduct"
        /\ out[2].k = "ledger"
        /\ out[3].k = "log_entry"
        /\ out[4].k = "balance_changed"
        /\ \A i \in DOMAIN out :
             i > 4 => out[i].k \notin {"deduct", "ledger", "log_entry",
                                       "balance_changed"}
        /\ out[1].v[3] = Max(0, out[1].v[1] - out[1].v[2])
        /\ current_balance = out[1].v[3]
        /\ out[2].v[3] = Format2(current_balance)
        /\ out[3].v[4] = current_balance
        /\ out[4].v[1] = current_balance

\* C5: with a target title configured, one waiting status is emitted per
\* run of consecutive failing guard checks, none at a passing check; one
\* ready status is emitted at the first passing check after such a run,
\* none at a failing check and none at any other passing check.
C5_FocusWarningEdgeTriggered ==
    /\ fail_run > 0 => (wait_emits = 1 /\ ready_emits = 0)
    /\ fail_run = 0 =>
         (wait_emits = 0 /\ ready_emits = (IF ended_run > 0 THEN 1 ELSE 0))
    /\ focus_warning_active = (fail_run > 0)

\* the first passing check after a run of MaxRun or more failing checks,
\* answered by one ready status
C5_Witness ==
    /\ ended_run = MaxRun
    /\ fail_run = 0
    /\ ready_emits = 1
    /\ HasStatus("TARGET_FOCUS_READY")

\* the foreground title a step's guard check saw does not contain the
\* configured title, compared case-insensitively
Blocked ==
    /\ target_window # <<>>
    /\ \E i \in DOMAIN out :
         /\ out[i].k = "foreground"
         /\ ~Contains(Lower(target_window), Lower(out[i].t))

\* pyautogui raised in a click, the fail-safe apart
ClickFailed ==
    \E i \in DOMAIN out, r \in {"item", "close", "max", "buy", "confirm", "cancel"} :
        out[i].k = "status" /\ out[i].n = "CLICK_FAILED:" \o r

\* C6: a click whose guard check sees a foreground title that does not
\* contain the configured one returns false with no pointer move and no
\* click; a read in that case returns none with no capture; with no title
\* configured no check fails: every click reaches the pointer and every
\* read captures.
C6_GuardBlocksClickAndRead ==
    /\ Blocked =>
         /\ ~HasKind("move") /\ ~HasKind("click") /\ ~HasKind("capture")
         /\ ~HasKind("delay")
         /\ \A i \in DOMAIN out :
              /\ out[i].k = "click_roi" => out[i].v = <<0>>
              /\ out[i].k = "read_value" => out[i].v = <<None>>
    /\ target_window = <<>> =>
         /\ ~focus_warning_active
         /\ ~HasStatus("WAITING_FOR_TARGET_FOCUS")
         /\ HasKind("read_value") => HasKind("capture")
         /\ HasKind("click_roi") =>
              \/ HasKind("move")
              \/ HasStatus("FAILSAFE_TRIGGERED")
              \/ ClickFailed

\* a buy click refused because another window is in front
C6_Witness ==
    /\ Blocked
    /\ \E i \in DOMAIN out :
         out[i].k = "click_roi" /\ out[i].n = "buy" /\ out[i].v = <<0>>

\* C7: when CHECK_PRICE (the three-attempt read) obtains a price p, the
\* state becomes OUT_OF_RANGE_CLOSE if p > max_price and IN_RANGE_EXECUTE
\* otherwise, p = max_price included; p is the price last observed.
C7_RangeTransition ==
    \A i, j \in DOMAIN out :
        (/\ out[i].k = "capture" /\ out[i].n = "price" /\ out[i].v = <<3>>
         /\ out[j].k = "read_value" /\ out[j].v # <<None>>)
        => /\ latest_price = out[j].v[1]
           /\ state = (IF out[j].v[1] > max_price
                       THEN "OUT_OF_RANGE_CLOSE" ELSE "IN_RANGE_EXECUTE")

\* CHECK_PRICE read exactly max_price and moved to IN_RANGE_EXECUTE
C7_Witness ==
    /\ \E i \in DOMAIN out :
         out[i].k = "capture" /\ out[i].n = "price" /\ out[i].v = <<3>>
    /\ \E j \in DOMAIN out :
         out[j].k = "read_value" /\ out[j].v = <<max_price>>
    /\ state = "IN_RANGE_EXECUTE"

\* targetPrice as the claim gives it
ClaimedTarget == max_price * (IF buy_amount > 1 THEN buy_amount ELSE 1)

\* the positions of a bulk iteration between the cancel of a price above
\* target and the return to the loop head
AbovePath ==
    \/ pc \in {"b_cancel_above", "b_above_wait", "b_pending"}
    \/ pc = "sleep" /\ ret \in {"b_above_wait", "b_pending"}

\* C8: in bulk mode a price read is compared with max_price x max(1,
\* buy_amount): a resolved price above it leads to the cancel click and one
\* within it to the buy click; from the cancel on, the iteration clicks
\* cancel (through click(cancel)), clicks no buy, records no trade, and
\* returns to the loop head with the confirm delay pending, where the next
\* click is the confirm click.
C8_BulkAboveTargetCancels ==
    [][buy_method = "bulk" =>
        /\ \A i \in DOMAIN out' :
             (out'[i].k = "read_value" /\ out'[i].v # <<None>>)
             => /\ price' = out'[i].v[1]
                /\ pc' = (IF out'[i].v[1] > ClaimedTarget
                          THEN "b_cancel_above" ELSE "b_buy")
        /\ (Clicked("buy"))' => (price # None /\ price <= ClaimedTarget)
        /\ (pc = "b_cancel_above" /\ pc' # pc)
             => (Has("click_roi", "cancel"))' /\ pc' = "sleep"
                /\ ret' = "b_above_wait"
        /\ AbovePath
             => /\ ~(Clicked("buy"))' /\ ~Recorded'
                /\ ledger_rows' = ledger_rows
                /\ current_balance' = current_balance
                /\ \/ AbovePath'
                   \/ pc = "b_pending" /\ pc' = "b_top"
                      /\ pending_confirm_delay'
        /\ (pc = "b_top" /\ pc' \notin {"b_top", "sleep", "done"})
             => pc' = "b_confirm"
        /\ (pc = "b_confirm" /\ pc' # pc)
             => (Has("click_roi", "confirm"))'
      ]_vars

\* the cancel click of an iteration whose price exceeded the target was
\* delivered
C8_Witness ==
    /\ buy_method = "bulk"
    /\ pc = "sleep"
    /\ ret = "b_above_wait"
    /\ Clicked("cancel")

\* C9: in bulk mode _log_trade is called with the unit price price / max(1,
\* buy_amount) and the amount spent price, price being the resolved price
\* the buy was clicked at; the trade-logged event carries them, the ledger
\* row their two-decimal texts.
C9_BulkUnitPrice ==
    (buy_method = "bulk" /\ Recorded) =>
        \A i \in DOMAIN out :
            /\ out[i].k = "deduct" => out[i].v[2] = price
            /\ out[i].k = "log_entry" =>
                 /\ out[i].v[1] = price
                 /\ out[i].v[2] = (IF buy_amount > 1 THEN buy_amount ELSE 1)
                 /\ out[i].v[3] = price
            /\ out[i].k = "ledger" =>
                 /\ out[i].v[1] =
                        Format2Rat(price, IF buy_amount > 1 THEN buy_amount ELSE 1)
                 /\ out[i].v[2] = Format2(price)

\* a bulk trade of two units at a total of 2: the unit price 2/2 is logged
C9_Witness ==
    /\ buy_method = "bulk"
    /\ buy_amount = 2
    /\ \E i \in DOMAIN out :
         out[i].k = "log_entry" /\ out[i].v = <<2, 2, 2, current_balance>>

\* C10: a bulk run records at most one trade; once the buy click has been
\* delivered the trade is recorded (one ledger row), BUY_PLACED is emitted
\* and the run is over, with no further confirm, cancel or buy click.
C10_BulkSinglePurchase ==
    buy_method = "bulk" =>
        /\ ledger_rows <= 1
        /\ Recorded =>
             /\ pc = "done"
             /\ ledger_rows = 1
             /\ HasKind("ledger")
             /\ HasStatus("BUY_PLACED")
             /\ HasStatus("STOPPED")
             /\ ~HasKind("click")
        /\ (pc = "done" /\ ledger_rows = 1) => Recorded

\* C11: when the stop flag is set during a sleep, the next poll of the sleep
\* ends it, whatever time is left until its deadline; the loop head that
\* then sees the flag leaves the loop (STOPPED, then IDLE), and the run
\* does come to its end.
C11_StopEndsSleep ==
    /\ [][(pc = "sleep" /\ stop_event /\ posVars' # posVars)
            => (pc' = ret /\ ~deadline_ahead')]_vars
    /\ [][(pc \in {"top", "b_top"} /\ stop_event /\ pc' # pc)
            => (pc' = "done" /\ out' = ExitEvents)]_vars
    /\ (pc = "sleep" /\ stop_event) ~> (pc = "done")

\* stop() was called during a sleep whose deadline is still ahead
C11_Witness ==
    /\ pc = "sleep"
    /\ deadline_ahead
    /\ stop_event
    /\ \E i \in DOMAIN out : out[i].k = "stop" /\ out[i].v = <<0>>

\* C12: after the stop flag is set the engine makes at most one more pointer
\* move, click, capture or trade recording (the operation in flight when
\* stop() was called): once a step that started with the flag set has made
\* one, no later step makes another.
C12_StopLatencyOneOperation ==
    [][op_after_stop
        => ~(\E i \in DOMAIN out' : out'[i].k \in OperationKinds)]_vars

\* C13: a run in which stop() was called and every pointer call returned
\* ends with the status STOPPED followed by the final status IDLE.
C13_StopEndsStopped ==
    (pc = "done" /\ stop_event /\ ~HasKind("raise"))
        => /\ Len(out) >= 2
           /\ out[Len(out) - 1] = Status("STOPPED")
           /\ out[Len(out)] = Status("IDLE")

\* C14: the stop flag, once set, stays set for the rest of the run, and a
\* call of stop() made when the flag is set already (set by an earlier call
\* or by a fail-safe trip) changes nothing of the engine: the run goes on
\* from the very state it was in, as after the first call.
C14_StopIdempotent ==
    [][/\ stop_event => stop_event'
       /\ (\E i \in DOMAIN out' : out'[i].k = "stop" /\ out'[i].v = <<1>>)
            => UNCHANGED <<paramVars, guardVars, fsmVars, bulkVars, posVars,
                           current_balance, stop_event, ledger_rows,
                           op_after_stop, histVars>>
      ]_vars

\* stop() called again, the run being in a sleep it has yet to leave
C14_Witness ==
    /\ stop_event
    /\ pc = "sleep"
    /\ \E i \in DOMAIN out : out[i].k = "stop" /\ out[i].v = <<1>>

\* C15: whenever a pointer move or click trips the fail-safe, the stop flag
\* is set, the FAILSAFE status is emitted and no fatal-error notification
\* is: the run ends as a stop.
C15_FailSafeIsAStop ==
    Has("raise", "FailSafeException")
        => /\ stop_event
           /\ HasStatus("FAILSAFE_TRIGGERED")
           /\ ~HasKind("critical_error")

\* C16: an exception other than the fail-safe raised by the move or the
\* click of click(region) is caught: the click returns false, the status
\* CLICK_FAILED names the region, the stop flag is as it was, there is no
\* fatal-error notification and the run goes on.
C16_ClickErrorRecoverable ==
    [][\A i \in DOMAIN out' :
          (out'[i].k = "click_roi" /\ (Has("raise", "Exception"))')
          => /\ out'[i].v = <<0>>
             /\ \E j \in DOMAIN out' :
                  /\ out'[j].k = "status"
                  /\ out'[j].n = "CLICK_FAILED:" \o out'[i].n
             /\ ~(HasStatus("FAILSAFE_TRIGGERED"))'
             /\ ~(HasKind("critical_error"))'
             /\ stop_event' = stop_event
             /\ pc' # "done"
      ]_vars

\* the buy click raised, the run is not stopped and goes on
C16_Witness ==
    /\ Has("raise", "Exception")
    /\ Has("click_roi", "buy")
    /\ HasStatus("CLICK_FAILED:buy")
    /\ ~stop_event
    /\ pc = "top"

\* C17: when an exception escapes the loop the run is over at once: the
\* step emits one fatal-error notification, which tells the failed call,
\* then the final status IDLE, and the engine takes no further step (no
\* click, no read, no trade recording).
C17_FatalEndsRun ==
    /\ [](HasKind("critical_error") =>
            /\ pc = "done"
            /\ Len(out) >= 2
            /\ out[Len(out)] = Status("IDLE")
            /\ out[Len(out) - 1].k = "critical_error"
            /\ \A i \in DOMAIN out :
                 out[i].k = "critical_error" => i = Len(out) - 1
            /\ out[Len(out) - 1].n =
                   (IF HasKind("raise") THEN "moveTo" ELSE "append")
            /\ ~HasKind("raise") => (Recorded /\ ~HasKind("ledger")))
    /\ [][pc # "done"]_vars

\* a simple run ended in IN_RANGE_EXECUTE by an exception of the ledger write
C17_Witness ==
    /\ Has("critical_error", "append")
    /\ buy_method = "simple"
    /\ state = "IN_RANGE_EXECUTE"
    /\ pc = "done"

\* C18: when the ledger write of a recording fails, the deduction stays and
\* the controller is told by a persistence-failure signal, not by the
\* fatal-error notification.
C18_PersistenceFailureSignal ==
    (Recorded /\ ~HasKind("ledger"))
        => /\ \A i \in DOMAIN out :
                out[i].k = "deduct" => current_balance = out[i].v[3]
           /\ HasKind("persistence_failure")
           /\ ~HasKind("critical_error")

\* the label _read_value reports a region under
LabelOf(roi_name) == IF roi_name = "price" THEN "PRICE" ELSE "TOTAL"

\* C19: a read whose OCR raised or found no number returns none, emits
\* only a status (OCR_ERROR for the exception, <label>_READ_FAIL for no
\* number, never both), emits no fatal-error notification, leaves the stop
\* flag as it was and does not end the run.
C19_ReadFailureRecoverable ==
    [][\A i \in DOMAIN out' :
          (out'[i].k = "ocr" /\ out'[i].v \in {<<Raise>>, <<None>>})
          => /\ \E j \in DOMAIN out' :
                  /\ out'[j].k = "read_value"
                  /\ out'[j].n = out'[i].n
                  /\ out'[j].v = <<None>>
             /\ (HasStatus("OCR_ERROR"))' <=> (out'[i].v = <<Raise>>)
             /\ (\E j \in DOMAIN out' :
                    /\ out'[j].k = "status"
                    /\ out'[j].n = LabelOf(out'[i].n) \o "_READ_FAIL")
                  <=> (out'[i].v = <<None>>)
             /\ \A j \in DOMAIN out' :
                  out'[j].k \in {"foreground", "status", "capture", "ocr",
                                 "read_value"}
             /\ stop_event' = stop_event
             /\ pc' # "done"
      ]_vars

\* the OCR engine raised at the read of the total: the fallback is used
C19_Witness ==
    /\ \E i \in DOMAIN out :
         out[i].k = "ocr" /\ out[i].n = "total" /\ out[i].v = <<Raise>>
    /\ HasStatus("OCR_ERROR")
    /\ pc = "ire_buy"
    /\ latest_total_price = Fallback

\* C20: automation starts only with every region of the selected mode present
\* and of positive width and height: whatever regions were captured, reset or
\* loaded before, a step that creates the worker finds each region the
\* selected mode requires stored with w > 0 and h > 0.
C20_StartNeedsPositiveRegions ==
    [][(~worker /\ worker')
         => \A m \in Methods :
              current_buy_method' = m
                => \A name \in ROI_GROUPS[m] :
                     /\ Len(rois[m][name]) = 4
                     /\ rois[m][name][3] > 0
                     /\ rois[m][name][4] > 0]_vars

\* C20 witness: a worker was created in bulk mode with the five bulk regions
\* captured, while a region of the simple mode is still missing
C20_Witness ==
    /\ worker
    /\ current_buy_method = "bulk"
    /\ \A name \in ROI_GROUPS["bulk"] : rois["bulk"][name] = <<0, 0, 5, 5>>
    /\ rois["simple"]["price"] = NoRoi

\* C21: one run at a time, each with a fresh engine: the engine is put at the
\* start of run() only by a start made while there is no worker and no run
\* under way, that start leaves the engine in its initial state (IDLE, no
\* price and no total price, should_click_item set, max latch, focus warning
\* and stop flag clear), a step with a worker present never rebuilds the
\* engine (its parameters stay, its stop flag is not cleared, it does not go
\* back to the start of run()), and the worker is released only once run()
\* has returned.
C21_OneFreshRunAtATime ==
    /\ [][(~worker /\ worker')
            => /\ pc \in {"unbuilt", "done"}
               /\ pc' = "run"
               /\ state' = "IDLE"
               /\ latest_price' = None
               /\ latest_total_price' = None
               /\ should_click_item'
               /\ ~max_clicked'
               /\ ~focus_warning_active'
               /\ ~stop_event']_vars
    /\ [][(worker /\ worker')
            => /\ paramVars' = paramVars
               /\ stop_event => stop_event'
               /\ pc' = "run" => pc = "run"]_vars
    /\ [][(worker /\ ~worker') => (pc = "done" /\ engineVars' = engineVars)]_vars

\* C21 witness: a later run has begun: a worker exists with its engine at
\* the start of run() in bulk mode, its stop flag clear, while the ledger
\* holds a row that an earlier run appended
C21_Witness ==
    /\ worker
    /\ pc = "run"
    /\ ~stop_event
    /\ state = "IDLE"
    /\ buy_method = "bulk"
    /\ current_buy_method = "bulk"
    /\ ledger_rows > 0

\* the texts' shapes, as the parser claims read them
IsSep(c) == c \in {",", "."}
\* a text of digits, commas and points only: the whole text is the token
Numeric(t) == t # <<>> /\ \A i \in 1..Len(t) : t[i] \in Digits \/ IsSep(t[i])
Count(t, c) == Cardinality({i \in 1..Len(t) : t[i] = c})
HasDigit(t) == \E i \in 1..Len(t) : t[i] \in Digits
\* the position of the last separator of a text that has one
LastSep(t) ==
    CHOOSE i \in 1..Len(t) : IsSep(t[i]) /\ \A j \in (i + 1)..Len(t) : ~IsSep(t[j])
\* the digits of t, read as one integer
DigitsValue(t) == IntOf(Without(t, {",", "."}))

\* C22: an integer written with 3-digit grouping, with "," as its only
\* separator or with "." as its only separator, parses back to that integer.
C22_GroupedRoundTrip ==
    (parsed # Pending /\ formatted # None) => parsed = <<formatted, 1>>

\* C22 witness: 1.234.567 was parsed back to 1234567
C22_Witness ==
    /\ text = <<"1", ".", "2", "3", "4", ".", "5", "6", "7">>
    /\ formatted = 1234567
    /\ parsed = <<1234567, 1>>

\* C23: in a token with both "," and ".", the separator that occurs last is
\* the decimal separator and the other one is removed: the value is the
\* digits read as one integer, divided by ten to the number of digits after
\* the last separator (1.234,56 and 1,234.56 both give 1234.56); when the
\* last separator occurs more than once the token does not convert.
C23_LastSeparatorIsDecimal ==
    (parsed # Pending /\ Numeric(text) /\ Count(text, ",") > 0
        /\ Count(text, ".") > 0)
    => LET q == LastSep(text)
       IN  IF Count(text, text[q]) > 1 \/ ~HasDigit(text)
           THEN parsed = NoNumber
           ELSE parsed = <<DigitsValue(text), Pow10(Len(text) - q)>>

\* C23 witness: 1.234,56 was parsed to 1234.56
C23_Witness ==
    /\ text = <<"1", ".", "2", "3", "4", ",", "5", "6">>
    /\ parsed = <<123456, 100>>

\* a leading group of digits followed by one or more groups of exactly three
\* digits, sep between the groups
GroupedShape(t, sep) ==
    LET ps == {i \in 1..Len(t) : t[i] = sep}
    IN  /\ ps # {}
        /\ \A p \in ps :
              /\ p >= 2
              /\ p + 3 <= Len(t)
              /\ {p + 1, p + 2, p + 3} \cap ps = {}
              /\ p + 3 = Len(t) \/ p + 4 \in ps

\* C24: in a token with one kind of separator, the separator is a thousands
\* separator when the token has the grouped shape; otherwise it is the
\* decimal separator when one or two digits follow its last occurrence at
\* the end of the token; otherwise it is a thousands separator.  A thousands
\* separator is removed (1,234 gives 1234), a decimal separator splits the
\* value (1234,5 gives 1234.5) and does not convert when it occurs twice.
C24_SingleSeparator ==
    (parsed # Pending /\ Numeric(text)
        /\ (Count(text, ",") > 0) # (Count(text, ".") > 0))
    => LET q == LastSep(text)
           sep == text[q]
           whole == IF HasDigit(text) THEN <<DigitsValue(text), 1>>
                    ELSE NoNumber
       IN  IF GroupedShape(text, sep) THEN parsed = whole
           ELSE IF Len(text) - q \in {1, 2}
                THEN IF Count(text, sep) > 1 THEN parsed = NoNumber
                     ELSE parsed = <<DigitsValue(text), Pow10(Len(text) - q)>>
           ELSE parsed = whole

\* C24 witness: 1234,5 was parsed to 1234.5
C24_Witness ==
    /\ text = <<"1", "2", "3", "4", ",", "5">>
    /\ parsed = <<12345, 10>>

\* C25: parse_numeric returns a number or None and raises nothing: None for
\* a text without a digit, separator or apostrophe (K K K), for a token of
\* separators only and for a token left with two decimal points (1,2,3); a
\* number for a text whose first run has a digit and one separator at most.
C25_ParseIsTotal ==
    parsed # Pending
    => /\ parsed # ValueError
       /\ \/ parsed = NoNumber
          \/ Len(parsed) = 2 /\ parsed[1] >= 0 /\ parsed[2] >= 1
       /\ (\A i \in 1..Len(text) :
              text[i] \notin Digits \cup {",", "."} \cup Apostrophes)
            => parsed = NoNumber
       /\ ~HasDigit(text) => parsed = NoNumber
       /\ text = <<"1", ",", "2", ",", "3">> => parsed = NoNumber
       /\ (Numeric(text) /\ HasDigit(text)
             /\ Count(text, ",") + Count(text, ".") <= 1)
            => parsed # NoNumber

\* C25 witness: K K K was parsed to None
C25_Witness ==
    /\ text = <<"K", " ", "K", " ", "K">>
    /\ parsed = NoNumber

\* the attempts whose text parsed to a number
ParsedAttempts ==
    {i \in 1..Len(ocr_texts) : ParseNumeric(ocr_texts[i]) # NoNumber}

\* the sum of the numbers parsed at the attempts of the set is
RECURSIVE SumAt(_)
SumAt(is) ==
    IF is = {} THEN <<0, 1>>
    ELSE LET i == CHOOSE j \in is : TRUE
         IN  Add(ParseNumeric(ocr_texts[i]), SumAt(is \ {i}))

\* C26: read_price_average(roi, attempts) returns the arithmetic mean of
\* exactly the attempts whose text parsed to a number, None when none did,
\* and a list of raw strings with one entry per attempt, the stripped text
\* of that attempt, whether it parsed or not (500, unparsable, 500 gives 500
\* and three strings).
C26_SampleMean ==
    sample_pc = "returned"
    => LET avg == sample_ret[1]
           raw == sample_ret[2]
           total == SumAt(ParsedAttempts)
       IN  /\ Len(raw) = Len(ocr_texts)
           /\ \A i \in 1..Len(raw) : raw[i] = StripText(ocr_texts[i])
           /\ ParsedAttempts = {} <=> avg = NoNumber
           /\ ParsedAttempts # {}
                => avg[1] * total[2] * Cardinality(ParsedAttempts)
                     = total[1] * avg[2]
           /\ ocr_texts = <<<<"5", "0", "0">>, <<"K">>, <<"5", "0", "0">>>>
                => avg[1] = 500 * avg[2] /\ Len(raw) = 3

\* C26 witness: three attempts read 500, K and 500; the call returned 500
\* and three raw strings
C26_Witness ==
    /\ sample_pc = "returned"
    /\ ocr_texts = <<<<"5", "0", "0">>, <<"K">>, <<"5", "0", "0">>>>
    /\ sample_ret[1] # NoNumber
    /\ sample_ret[1][1] = 500 * sample_ret[1][2]
    /\ sample_ret[2] = <<<<"5", "0", "0">>, <<"K">>, <<"5", "0", "0">>>>

\* the places of the file where the row of call c of thread w begins
RowStarts(w, c) ==
    {i \in 1..Len(ledger_file) : ledger_file[i] = <<w, c, 1>>}

\* C27: appends of overlapping threads on one ledger: every piece of a row
\* is next to the other piece of the same row (or that piece is still in the
\* buffer of the thread that holds the lock), a call that returned has added
\* exactly one row, a call that raised at open has added none, and a step
\* only adds to the end of the file.
C27_AppendUnderLock ==
    /\ [](/\ \A i \in 1..Len(ledger_file) :
               LET piece == ledger_file[i]
                   w == piece[1]
               IN  /\ piece[3] = 1
                        => \/ /\ i < Len(ledger_file)
                              /\ ledger_file[i + 1] = <<w, piece[2], 2>>
                           \/ /\ i = Len(ledger_file)
                              /\ ledger_lock = w
                              /\ wbuffer[w] = <<<<w, piece[2], 2>>>>
                   /\ piece[3] = 2
                        => i > 1 /\ ledger_file[i - 1] = <<w, piece[2], 1>>
          /\ \A w \in Writers : \A c \in 1..MaxCalls :
               /\ Cardinality(RowStarts(w, c)) <= 1
               /\ c <= Len(woutcome[w])
                    => Cardinality(RowStarts(w, c))
                         = (IF woutcome[w][c] = "ok" THEN 1 ELSE 0))
    /\ [][/\ Len(ledger_file') >= Len(ledger_file)
          /\ SubSeq(ledger_file', 1, Len(ledger_file)) = ledger_file]_vars

\* C27 witness: both threads are back from two calls each and the file holds
\* their four rows, the second thread's first row before the first thread's
C27_Witness ==
    /\ \A w \in Writers : woutcome[w] = <<"ok", "ok">>
    /\ Len(ledger_file) = 4 * NumWriters
    /\ ledger_file[1] = <<2, 1, 1>>
    /\ ledger_file[3] = <<1, 1, 1>>
    /\ ledger_lock = 0

\* the edges of _simple_loop's state machine
SimpleEdges ==
    { <<"IDLE", "CLICK_ITEM">>,
      <<"CLICK_ITEM", "CHECK_PRICE">>,
      <<"CHECK_PRICE", "CLICK_ITEM">>,
      <<"CHECK_PRICE", "OUT_OF_RANGE_CLOSE">>,
      <<"CHECK_PRICE", "IN_RANGE_EXECUTE">>,
      <<"OUT_OF_RANGE_CLOSE", "WAIT">>,
      <<"IN_RANGE_EXECUTE", "IN_RANGE_EXECUTE">>,
      <<"IN_RANGE_EXECUTE", "WAIT">>,
      <<"WAIT", "CLICK_ITEM">> }

\* C28: in simple mode the engine state changes only along the edges
\* Idle->ClickItem, ClickItem->CheckPrice, CheckPrice->{ClickItem,
\* OutOfRangeClose, InRangeExecute}, OutOfRangeClose->Wait,
\* InRangeExecute->{InRangeExecute, Wait}, Wait->ClickItem; Idle is never
\* re-entered and no other state (POST_BUY_CHECK) is ever reached.
C28_SimpleEdges ==
    /\ [](state \in {"IDLE", "CLICK_ITEM", "CHECK_PRICE", "OUT_OF_RANGE_CLOSE",
                     "WAIT", "IN_RANGE_EXECUTE"})
    /\ [][(buy_method = "simple" /\ state' # state)
            => (<<state, state'>> \in SimpleEdges /\ state' # "IDLE")]_vars

\* IN_RANGE_EXECUTE, reached from IDLE through CLICK_ITEM and CHECK_PRICE,
\* has just moved to WAIT at the balance floor
C28_Witness ==
    /\ buy_method = "simple"
    /\ state = "WAIT"
    /\ HasStatus("BALANCE_FLOOR_REACHED")

\* _click_roi("item") answered False / True in the step just made
ItemClickFailed == \E i \in DOMAIN out :
    out[i].k = "click_roi" /\ out[i].n = "item" /\ out[i].v = <<0>>
ItemClickDone == \E i \in DOMAIN out :
    out[i].k = "click_roi" /\ out[i].n = "item" /\ out[i].v = <<1>>

\* C29 (the engine's step at the item click is the one that leaves position
\* ci_click; a stop request of the window's thread can come in between):
\* in CLICK_ITEM with should_click_item set, a failed item click leaves
\* the state at CLICK_ITEM, the flag set and the max latch unchanged, and the
\* loop comes back to the same state; only a successful click, or the flag
\* being already clear, clears the flag and the max latch and moves to
\* CHECK_PRICE.
C29_ClickItemFrame ==
    /\ [][(buy_method = "simple" /\ pc = "ci_click" /\ pc' # pc) =>
            /\ state = "CLICK_ITEM"
            /\ should_click_item => (ItemClickFailed' \/ ItemClickDone')
            /\ (should_click_item /\ ItemClickFailed') =>
                   /\ state' = "CLICK_ITEM"
                   /\ should_click_item'
                   /\ max_clicked' = max_clicked
                   /\ ret' = "top"
            /\ (~should_click_item \/ ItemClickDone') =>
                   /\ ~should_click_item'
                   /\ ~max_clicked'
                   /\ ret' = "ci_done"
            /\ ~should_click_item => out' = <<>>]_vars
    /\ [][(/\ buy_method = "simple" /\ state = "CLICK_ITEM"
            /\ \/ should_click_item /\ ~should_click_item'
               \/ max_clicked /\ ~max_clicked'
               \/ state' # state)
           => \/ /\ pc = "ci_click" /\ pc' # pc
                 /\ (~should_click_item \/ ItemClickDone')
              \/ /\ pc = "ci_done" /\ state' = "CHECK_PRICE"
                 /\ ~should_click_item /\ ~max_clicked
                 /\ UNCHANGED <<should_click_item, max_clicked>>]_vars

\* an item click failed in CLICK_ITEM while the max latch was set: the
\* state, the flag and the latch are as they were
C29_Witness ==
    /\ buy_method = "simple"
    /\ state = "CLICK_ITEM"
    /\ ItemClickFailed
    /\ should_click_item
    /\ max_clicked
    /\ ret = "top"

\* the positions of an IN_RANGE_EXECUTE iteration after its balance-floor
\* test, the sleeps between them included
ExecutePositions == {"ire_max", "ire_max_done", "ire_total", "ire_buy",
                     "ire_reprice", "ire_close", "ire_close_done", "ire_log"}
InExecute == pc \in ExecutePositions
             \/ (pc = "sleep" /\ ret \in ExecutePositions)

\* C30: in simple mode, when IN_RANGE_EXECUTE is evaluated (the loop
\* condition holds and the focus guard passes) with current_balance <=
\* balance_floor, the iteration makes no max click, no buy click and no
\* trade record: BALANCE_FLOOR_REACHED is emitted, should_click_item is set
\* and the state becomes WAIT; no buy click (nor max click, nor trade
\* record) is ever made while current_balance <= balance_floor.
C30_BalanceFloor ==
    /\ [](buy_method = "simple" =>
            /\ InExecute => current_balance > balance_floor
            /\ (Has("click_roi", "buy") \/ Has("click_roi", "max")
                \/ Clicked("buy") \/ Clicked("max"))
                  => current_balance > balance_floor)
    /\ [][(buy_method = "simple" /\ Recorded') =>
              current_balance > balance_floor]_vars
    /\ [][(/\ buy_method = "simple" /\ pc = "top"
            /\ state = "IN_RANGE_EXECUTE"
            /\ current_balance <= balance_floor) =>
              /\ ~InExecute'
              /\ ~Clicked("max")' /\ ~Clicked("buy")' /\ ~Recorded'
              /\ (pc' = "top" /\ ~HasKind("stop")') =>
                     /\ HasStatus("BALANCE_FLOOR_REACHED")'
                     /\ should_click_item'
                     /\ state' = "WAIT"
              /\ state' \in {"IN_RANGE_EXECUTE", "WAIT"}]_vars

\* a trade brought the balance down to the floor and the next evaluation of
\* IN_RANGE_EXECUTE went to WAIT
C30_Witness ==
    /\ buy_method = "simple"
    /\ ledger_rows > 0
    /\ current_balance <= balance_floor
    /\ HasStatus("BALANCE_FLOOR_REACHED")
    /\ state = "WAIT"
    /\ should_click_item

\* C31: balance_floor is a hard stop in bulk mode as well: in a bulk-mode
\* run the buy region is not clicked and no trade is recorded while
\* current_balance <= balance_floor.
C31_BulkBalanceFloor ==
    /\ [](( buy_method = "bulk" /\ Clicked("buy"))
            => current_balance > balance_floor)
    /\ [][(buy_method = "bulk" /\ Recorded')
            => current_balance > balance_floor]_vars

\* C32 as stated: between two consecutive delivered clicks on the item
\* region, the max region is successfully clicked at most once.
C32_MaxOncePerItemClick ==
    buy_method = "simple" => max_after_item # "again"

\* C32 as amended: CLICK_ITEM clears the latch whether it clicks the item
\* region or finds should_click_item clear already; between two consecutive
\* completions of CLICK_ITEM the max region is successfully clicked at most
\* once, and only while the latch is clear.
C32_MaxOncePerCycle ==
    /\ [](buy_method = "simple" => max_since_cycle <= 1)
    /\ [][(buy_method = "simple" /\ Clicked("max")')
            => (~max_clicked /\ ~skip_max /\ state = "IN_RANGE_EXECUTE")]_vars

\* the max region has just been clicked a second time since the last item
\* click, CLICK_ITEM having completed without a click in between
C32_Witness ==
    /\ buy_method = "simple"
    /\ Clicked("max")
    /\ max_after_item = "again"
    /\ max_since_cycle = 1

\* C33: the cached total is cleared whenever a new cycle begins: in simple
\* mode it is None in every state where the engine is in CLICK_ITEM or
\* CHECK_PRICE; within one stay in IN_RANGE_EXECUTE the total region is read
\* at most once (it is read only while the cache is None, the read fills the
\* cache, on failure with the last known unit price, and the cache then
\* stays as it is until the stay ends), and every trade of the stay spends
\* the cached value.
C33_CachedTotal ==
    /\ []((buy_method = "simple" /\ state \in {"CLICK_ITEM", "CHECK_PRICE"})
            => latest_total_price = None)
    /\ [][buy_method = "simple" =>
            /\ Has("read_value", "total")' =>
                  /\ state = "IN_RANGE_EXECUTE" /\ state' = state
                  /\ latest_total_price = None
                  /\ latest_total_price' # None
                  /\ \A i \in DOMAIN out' :
                        (out'[i].k = "read_value" /\ out'[i].n = "total")
                        => latest_total_price' =
                             (IF out'[i].v = <<None>> THEN latest_price
                              ELSE out'[i].v[1])
            /\ (/\ state = "IN_RANGE_EXECUTE" /\ state' = state
                /\ latest_total_price # None)
                  => latest_total_price' = latest_total_price
            /\ \A i \in DOMAIN out' :
                  out'[i].k = "deduct"
                  => /\ latest_total_price # None
                     /\ out'[i].v[2] = latest_total_price]_vars

\* the second trade of one stay in IN_RANGE_EXECUTE has just been recorded
\* with the cached total
C33_Witness ==
    /\ buy_method = "simple"
    /\ state = "IN_RANGE_EXECUTE"
    /\ stay_trades = 2
    /\ \E i \in DOMAIN out :
         out[i].k = "deduct" /\ out[i].v[2] = latest_total_price

\* _click_roi("buy") answered False in the step just made
BuyClickFailed == \E i \in DOMAIN out :
    out[i].k = "click_roi" /\ out[i].n = "buy" /\ out[i].v = <<0>>

\* C34: in simple mode with skip_buy unset, a trade is recorded only in an
\* IN_RANGE_EXECUTE iteration in which the buy click was delivered; a failed
\* buy click (focus lost, fail-safe or dispatch error) moves to WAIT with no
\* trade recorded and the balance unchanged.
C34_TradeNeedsBuyClick ==
    [][(buy_method = "simple" /\ ~skip_buy) =>
         /\ Recorded' => (bought /\ state = "IN_RANGE_EXECUTE")
         /\ BuyClickFailed' =>
               /\ state = "IN_RANGE_EXECUTE" /\ state' = "WAIT"
               /\ pc' = "top"
               /\ ~bought'
               /\ ~Recorded'
               /\ current_balance' = current_balance
               /\ ledger_rows' = ledger_rows]_vars

\* a buy click failed on a pyautogui error (not on the focus guard) and the
\* engine is in WAIT
C34_Witness ==
    /\ buy_method = "simple"
    /\ ~skip_buy
    /\ BuyClickFailed
    /\ Has("raise", "Exception")
    /\ state = "WAIT"
    /\ current_balance > balance_floor

\* C35: one trade record per executed trade in simple mode: every delivered
\* click on the buy region is followed, before the next buy click and before
\* the engine leaves IN_RANGE_EXECUTE, by exactly one trade record: no buy
\* click is delivered while one awaits its record, the iteration of a
\* delivered buy click ends with one balance deduction, and the state is
\* left with no buy click awaiting its record.
C35_OneRecordPerBuyClick ==
    [][buy_method = "simple" =>
         /\ Clicked("buy")' => ~bought
         /\ (bought /\ ~bought') =>
               Cardinality({i \in DOMAIN out' : out'[i].k = "deduct"}) = 1
         /\ (state = "IN_RANGE_EXECUTE" /\ state' # state) => ~bought]_vars

\* the price re-sample of the step just made failed or read a price within
\* max_price
ResampleInRange == \E i \in DOMAIN out :
    /\ out[i].k = "read_value" /\ out[i].n = "price"
    /\ (out[i].v = <<None>> \/ out[i].v[1] <= max_price)

\* C36: after a delivered (or skipped) buy click in IN_RANGE_EXECUTE, when
\* the price re-sample fails or reads a price <= max_price, exactly one trade
\* is recorded with the last known unit price and the cached total (one
\* deduction, one ledger row), and the engine stays in IN_RANGE_EXECUTE as a
\* tight self-loop: the next iteration starts at the loop head, not through
\* WAIT and without a sleep.
C36_TightSelfLoop ==
    [][buy_method = "simple" =>
         /\ (pc = "ire_reprice" /\ pc' # pc /\ ResampleInRange') =>
               /\ pc' = "ire_log"
               /\ state' = "IN_RANGE_EXECUTE"
               /\ ~Recorded'
         /\ (pc = "ire_log" /\ pc' # pc) =>
               /\ Cardinality({i \in DOMAIN out' : out'[i].k = "deduct"}) = 1
               /\ Cardinality({i \in DOMAIN out' : out'[i].k = "ledger"}) = 1
               /\ \A i \in DOMAIN out' :
                     /\ out'[i].k = "deduct" => out'[i].v[2] = latest_total_price
                     /\ out'[i].k = "log_entry" =>
                           /\ out'[i].v[1] = latest_price * out'[i].v[2]
                           /\ out'[i].v[3] = latest_total_price
               /\ state' = "IN_RANGE_EXECUTE"
               /\ pc' = "top"]_vars

\* C37: when skip_buy is set the engine never clicks the buy region during
\* the run (it does not even attempt the click), in simple mode and in bulk
\* mode.
C37_SkipBuyNeverClicks ==
    skip_buy => (~Clicked("buy") /\ ~Has("click_roi", "buy"))

\* the delay the step just made waited before its click on confirm is d (a
\* delay of 0 ms is no wait at all)
ConfirmDelayIs(d) ==
    /\ d > 0 <=> Has("delay", "confirm")
    /\ \A i \in DOMAIN out :
         (out[i].k = "delay" /\ out[i].n = "confirm") => out[i].v = <<d>>

\* C38 as stated: in bulk mode, whenever an iteration ended in a cancel, the
\* next click delivered on the confirm region is made with the extra
\* pre-click delay, even if confirm attempts failed or focus was lost in
\* between.
C38_DelayedConfirmAfterCancel ==
    [][(buy_method = "bulk" /\ cancelled /\ Clicked("confirm")')
        => ConfirmDelayIs(ClickDelayMs + ConfirmPreDelayMs)']_vars

\* C38 as amended: the iteration that ends in a cancel sets the confirm
\* delay; the delay stays pending while the focus guard at the loop head
\* skips iterations, and the next call of click(confirm) takes it over
\* whether or not its click is delivered: a confirm click delivered by that
\* call waits the extra delay, one delivered by a later call (the first
\* having failed) the ordinary delay.
C38_DelayedConfirmAttempt ==
    [][buy_method = "bulk" =>
         /\ (pc = "b_pending" /\ pc' # pc) => pending_confirm_delay'
         /\ (~pending_confirm_delay /\ pending_confirm_delay')
               => pc = "b_pending"
         /\ (pending_confirm_delay /\ ~pending_confirm_delay')
               => (pc = "b_confirm" /\ Has("click_roi", "confirm")')
         /\ Has("click_roi", "confirm")' =>
               /\ ~pending_confirm_delay'
               /\ (Clicked("confirm")' /\ pending_confirm_delay) =>
                     ConfirmDelayIs(ClickDelayMs + ConfirmPreDelayMs)'
               /\ (Clicked("confirm")' /\ ~pending_confirm_delay) =>
                     ConfirmDelayIs(ClickDelayMs)']_vars

\* the confirm click that followed a cancel was delivered with the extra
\* delay
C38_Witness ==
    /\ buy_method = "bulk"
    /\ Clicked("confirm")
    /\ ConfirmDelayIs(ClickDelayMs + ConfirmPreDelayMs)

====
